---- MODULE Spec2Model ----
(***************************************************************************)
(* ZButton: the data access layer (three coexisting implementations of     *)
(* DataService), the NFC interaction controller (NFCManager.tsx) and the   *)
(* backend rows they act on.                                               *)
(*                                                                         *)
(* JavaScript strings are sequences of atoms: a literal of the source is   *)
(* one atom, a template string is the concatenation of its parts, an id is *)
(* a sequence of one-character atoms.  Two glyphs of the source that are   *)
(* not ASCII are written "[cross] " and "[check] ".                        *)
(***************************************************************************)
EXTENDS Integers, Sequences, FiniteSets, TLC

\* ---------------------------------------------------------------- bounds
MaxRows == 2      \* rows ever inserted into photo_metadata
MaxOps == 3       \* data-layer calls in one behaviour
MaxCalls == 2     \* readNFC and writeNFC invocations in one behaviour

\* ------------------------------------------------------- JavaScript values
Undef == <<"$undefined">>
Null == <<"$null">>
UndefNum == -1
Empty == <<>>

\* JavaScript truthiness of a string-or-absent value
Truthy(s) == s # Undef /\ s # Null /\ s # Empty
\* typeof v === 'string'; a value of another type is tagged "$number"
IsString(v) == IF v \in {Undef, Null} THEN FALSE ELSE IF v = <<>> THEN TRUE ELSE v[1] # "$number"
\* a || b
Or(a, b) == IF Truthy(a) THEN a ELSE b
\* `${v}` : the text a template string inserts for v
Tpl(v) == IF v = Undef THEN <<"undefined">> ELSE IF v = Null THEN <<"null">> ELSE v
\* JSON.stringify drops an undefined property: the column keeps its old
\* value on update and takes its default (NULL) on insert
Sent(v, old) == IF v = Undef THEN old ELSE v

Digits == <<"0", "1", "2", "3", "4", "5", "6", "7", "8", "9">>
IsDigit(c) == \E i \in 1..10 : Digits[i] = c
DigitVal(c) == (CHOOSE i \in 1..10 : Digits[i] = c) - 1

RECURSIVE ToStr(_)
\* Number.prototype.toString() of a non-negative integer
ToStr(n) == IF n < 10 THEN <<Digits[n + 1]>> ELSE ToStr(n \div 10) \o <<Digits[(n % 10) + 1]>>

RECURSIVE SkipWs(_)
SkipWs(s) == IF s # <<>> /\ Head(s) = " " THEN SkipWs(Tail(s)) ELSE s

RECURSIVE DigitPrefix(_, _)
\* value of the longest run of decimal digits s starts with, acc so far
DigitPrefix(s, acc) ==
  IF s # <<>> /\ IsDigit(Head(s)) THEN DigitPrefix(Tail(s), acc * 10 + DigitVal(Head(s))) ELSE acc

\* parseInt(id): leading white space and a sign are skipped, the longest
\* digit prefix is converted, what follows it is ignored; NaN without a digit
parseInt(s) ==
  LET t == SkipWs(s)
      neg == t # <<>> /\ Head(t) = "-"
      u == IF t # <<>> /\ Head(t) \in {"-", "+"} THEN Tail(t) ELSE t
  IN IF s \in {Undef, Null} \/ u = <<>> \/ ~IsDigit(Head(u))
       THEN [nan |-> TRUE, n |-> 0]
       ELSE [nan |-> FALSE, n |-> IF neg THEN 0 - DigitPrefix(u, 0) ELSE DigitPrefix(u, 0)]

\* the backend's own reading of a text filter value for the integer id
\* column (.eq('id', id) with a string): the whole text must be an integer
pgInt(s) ==
  LET u == IF s # <<>> /\ Head(s) \in {"-", "+"} THEN Tail(s) ELSE s
  IN IF s \in {Undef, Null} \/ u = <<>> \/ \E i \in 1..Len(u) : ~IsDigit(u[i])
       THEN [nan |-> TRUE, n |-> 0]
       ELSE parseInt(s)

RECURSIVE LastIndexOf(_, _)
\* index of the last atom c of s, 0 when there is none
LastIndexOf(s, c) ==
  IF s = <<>> THEN 0 ELSE IF s[Len(s)] = c THEN Len(s) ELSE LastIndexOf(SubSeq(s, 1, Len(s) - 1), c)

\* fileName.split('.').pop()
ExtOf(fileName) == SubSeq(fileName, LastIndexOf(fileName, ".") + 1, Len(fileName))

getMimeTypeFromExt(fileName) ==
  IF ~Truthy(fileName) THEN Null
  ELSE LET ext == ExtOf(fileName)
       IN IF ext \in {<<"jpg">>, <<"jpeg">>} THEN <<"image/jpeg">>
          ELSE IF ext = <<"png">> THEN <<"image/png">>
          ELSE IF ext = <<"gif">> THEN <<"image/gif">>
          ELSE IF ext = <<"webp">> THEN <<"image/webp">>
          ELSE IF ext = <<"pdf">> THEN <<"application/pdf">>
          ELSE Null

\* ------------------------------------------------------------ data types
DataTypes == {<<"id_card">>, <<"license">>, <<"photo">>, <<"document">>, <<"other">>}

DATA_TYPES ==
  << [id |-> <<"id_card">>, name |-> <<"ID Card">>,
      acceptedFileTypes |-> << <<"image/jpeg">>, <<"image/png">>, <<"image/webp">>, <<"application/pdf">> >>],
     [id |-> <<"license">>, name |-> <<"License">>,
      acceptedFileTypes |-> << <<"image/jpeg">>, <<"image/png">>, <<"image/webp">>, <<"application/pdf">> >>],
     [id |-> <<"photo">>, name |-> <<"Photo">>,
      acceptedFileTypes |-> << <<"image/jpeg">>, <<"image/png">>, <<"image/webp">>, <<"image/gif">> >>],
     [id |-> <<"document">>, name |-> <<"Document">>,
      acceptedFileTypes |-> << <<"application/pdf">>, <<"image/jpeg">>, <<"image/png">> >>],
     [id |-> <<"other">>, name |-> <<"Other">>,
      acceptedFileTypes |-> << <<"image/jpeg">>, <<"image/png">>, <<"image/webp">>, <<"application/pdf">> >>] >>

getDataTypeConfig(type) ==
  IF \E i \in 1..Len(DATA_TYPES) : DATA_TYPES[i].id = type
    THEN DATA_TYPES[CHOOSE i \in 1..Len(DATA_TYPES) : DATA_TYPES[i].id = type]
    ELSE DATA_TYPES[Len(DATA_TYPES)]

\* ------------------------------------------------------------ the link
\* window.location.origin of the page the application is served from
Origins == { <<"https:", "/", "/", "zapp.app">>, <<"http:", "/", "/", "nfc">> }

generateNFCLink(origin, dataItemId, type) ==
  origin \o <<"/", "nfc", "/">> \o Tpl(type) \o <<"/">> \o Tpl(dataItemId)

RECURSIVE NonSlashRun(_, _)
\* number of atoms other than "/" that s holds from index i on
NonSlashRun(s, i) == IF i <= Len(s) /\ s[i] # "/" THEN 1 + NonSlashRun(s, i + 1) ELSE 0

\* link.match(/\/nfc\/[^\/]+\/(.+)$/) tried at index i: "/nfc/", one or more
\* atoms without a slash, a slash, and a non-empty rest up to the end
MatchAt(link, i) ==
  /\ i + 2 <= Len(link)
  /\ link[i] = "/" /\ link[i + 1] = "nfc" /\ link[i + 2] = "/"
  /\ NonSlashRun(link, i + 3) >= 1
  /\ i + 3 + NonSlashRun(link, i + 3) < Len(link)
  /\ link[i + 3 + NonSlashRun(link, i + 3)] = "/"

\* matches[1] of the leftmost match, Null without a match
LinkIdSegment(link) ==
  IF \E i \in 1..Len(link) : MatchAt(link, i)
    THEN LET i == CHOOSE k \in 1..Len(link) : MatchAt(link, k) /\ \A j \in 1..(k - 1) : ~MatchAt(link, j)
         IN SubSeq(link, i + 4 + NonSlashRun(link, i + 3), Len(link))
    ELSE Null

\* ------------------------------------------------------------ the state
VARIABLES
  impl,      \* which DataService module '../services/dataService' resolves to
  origin,    \* window.location.origin
  db,        \* the backend: photo_metadata rows, users, stored objects
  nOps,      \* data-layer calls made so far
  last,      \* the last data-layer call: its arguments, backend calls, result
  prev,      \* the data-layer call before it
  ndefInWindow, \* 'NDEFReader' in window
  mount,     \* NFCManager: the two calls of the mount effect, where each stands
  nfcStatus, \* NFCManager: useState<NFCStatus>
  message,   \* NFCManager: useState message
  messageType,
  dataItems, \* NFCManager: useState dataItems, the ids offered for selection
  selectedDataItem,
  reads,     \* readNFC invocations: closure, position, timer
  writes,    \* writeNFC invocations: selection, position, looked-up item
  hw,        \* the messages handed to ndef.write, in order
  tagEvents, \* 'reading' events delivered so far
  nfcEv,     \* the last step the NFC controller took
  viewer,    \* NFCViewer: useState dataItem, loading, error
  linkStatus, \* DataManager: useState<Record<string, boolean>>
  toggles,   \* onToggleLinkStatus invocations: arguments, closure, position
  toast,     \* DataManager: the last toast shown
  user,      \* useAuth().user: the id of the signed-in user, or null
  managerItems, \* DataManager: useState<DataItem[]> dataItems
  deletes,   \* deleteItem invocations: the answer to confirm(), position, result
  modal,     \* EditDataModal: which one is open, the form fields, selectedFile
  submitted, \* the last submission of the modal: what onSave was called with
  made       \* the payload of each successful create, by item id

dataVars == <<db, nOps, last, prev>>
nfcVars == <<ndefInWindow, mount, nfcStatus, message, messageType, dataItems,
             selectedDataItem, reads, writes, hw, tagEvents, nfcEv>>
uiVars == <<viewer, linkStatus, toggles, toast, user, managerItems, deletes, modal, submitted>>
vars == <<impl, origin, db, nOps, last, prev, ndefInWindow, mount, nfcStatus, message,
          messageType, dataItems, selectedDataItem, reads, writes, hw, tagEvents, nfcEv,
          viewer, linkStatus, toggles, toast, user, managerItems, deletes, modal, submitted,
          made>>

\* the three DataService implementations of the repository
Impls == {"svc", "p001", "p003"}

\* JavaScript rendering of a boolean column in an optional boolean field
JsBool(b) == IF b THEN "true" ELSE "false"

NoItem ==
  [id |-> Undef, userId |-> Undef, deviceId |-> Undef, type |-> Undef, name |-> Undef,
   description |-> Undef, fileData |-> Undef, fileName |-> Undef, fileType |-> Undef,
   fileSize |-> UndefNum, nfcLink |-> Undef, createdAt |-> 0, updatedAt |-> 0,
   isPublic |-> "undefined"]

\* what a data-layer call gives back: an item, null, a boolean, nothing, or
\* a thrown error
ResItem(it) == [kind |-> "item", item |-> it, err |-> "", ok |-> TRUE]
ResNull == [kind |-> "null", item |-> NoItem, err |-> "", ok |-> FALSE]
ResThrow(e) == [kind |-> "throw", item |-> NoItem, err |-> e, ok |-> FALSE]
ResBool(b) == [kind |-> "bool", item |-> NoItem, err |-> "", ok |-> b]
ResVoid == [kind |-> "void", item |-> NoItem, err |-> "", ok |-> TRUE]

\* the outcome of a data-layer call: result, backend afterwards, backend
\* calls issued in order
Out(res, b, calls) == [res |-> res, db |-> b, calls |-> calls]

\* item.tags?.[0]
TagHead(tags) == IF tags = Null \/ tags = <<>> THEN Undef ELSE tags[1]

\* ------------------------------------------------ src/unnamed/part_003
\* the row mapping shared by getDataItems, getDataItemsByType, getDataItem
rowToItem_p003(org, id, r) ==
  [id |-> ToStr(id), userId |-> r.uploader_id, deviceId |-> <<"web">>,
   type |-> Or(TagHead(r.tags), <<"other">>), name |-> r.file_name,
   description |-> r.description, fileData |-> r.file_url, fileName |-> r.file_name,
   fileType |-> r.mime_type, fileSize |-> r.file_size,
   nfcLink |-> generateNFCLink(org, ToStr(id), Or(TagHead(r.tags), <<"other">>)),
   createdAt |-> r.uploaded_at, updatedAt |-> r.uploaded_at, isPublic |-> "undefined"]

\* getDataItem(id); ok: the backend answers the select without an error
getDataItem_p003(org, b, id, ok) ==
  LET numericId == parseInt(id)
  IN IF numericId.nan THEN Out(ResNull, b, <<>>)
     ELSE IF ~ok \/ numericId.n \notin DOMAIN b.rows
       THEN Out(ResNull, b, <<"photo_metadata.select">>)
       ELSE Out(ResItem(rowToItem_p003(org, numericId.n, b.rows[numericId.n])), b,
                <<"photo_metadata.select">>)

\* a File: name, MIME type, size
MkFile(name, type, size) == [name |-> name, type |-> type, size |-> size]
NoFile == MkFile(Undef, Undef, UndefNum)
OctetStream == <<"application/octet-stream">>

\* the atoms atob() decodes; any other atom makes it throw
Base64Atoms == {"QUJD"}

RECURSIVE IndexOf(_, _, _)
\* index of the first atom c of s at or after i, 0 when there is none
IndexOf(s, c, i) == IF i > Len(s) THEN 0 ELSE IF s[i] = c THEN i ELSE IndexOf(s, c, i + 1)

\* base64ToFile(base64, fileName, mimeType): the MIME type is the one given,
\* else the text between the first ':' and the next ';' of the part before
\* the first comma; the part after the last comma is decoded
base64ToFile(base64, fileName, mimeType) ==
  LET comma == IndexOf(base64, ",", 1)
      arr0 == IF comma = 0 THEN base64 ELSE SubSeq(base64, 1, comma - 1)
      body == SubSeq(base64, LastIndexOf(base64, ",") + 1, Len(base64))
      colon == IndexOf(arr0, ":", 1)
      semi == IF colon = 0 THEN 0 ELSE IndexOf(arr0, ";", colon + 1)
      inferred == IF semi = 0 THEN Undef ELSE SubSeq(arr0, colon + 1, semi - 1)
      mime == Or(mimeType, Or(inferred, OctetStream))
  IN [threw |-> \E i \in 1..Len(body) : body[i] \notin Base64Atoms,
      file |-> MkFile(fileName, mime, Len(body))]

\* uploadFileToStorage(file, userId, mimeType); how: "ok", "err" (the upload
\* is rejected) or "nourl" (uploaded, getPublicUrl gives no URL)
uploadFileToStorage(b, userId, how) ==
  LET n == b.uploads + 1
  IN [threw |-> how # "ok",
      publicUrl |-> <<"url#">> \o ToStr(n),
      storagePath |-> Tpl(userId) \o <<"/", "obj#">> \o ToStr(n),
      db |-> IF how = "err" THEN b ELSE [b EXCEPT !.uploads = n],
      calls |-> <<"storage.upload">>]

\* the first try-block statements of createDataItem: the users row of the
\* owner is looked up and, when absent, inserted from the signed-in user
ensureUser(b, userId, o, needEmail) ==
  IF ~o.userSel THEN [err |-> "backend", db |-> b, calls |-> <<"users.select">>]
  ELSE IF userId \in b.users THEN [err |-> "", db |-> b, calls |-> <<"users.select">>]
  ELSE IF needEmail /\ o.auth = "err"
    THEN [err |-> "backend", db |-> b, calls |-> <<"users.select", "auth.getUser">>]
  ELSE IF o.auth \in {"err", "nouser"} \/ (needEmail /\ o.auth = "noemail")
    THEN [err |-> IF needEmail THEN "Authenticated user and email required to create user entry."
                  ELSE "Authentication required to create user entry.",
          db |-> b, calls |-> <<"users.select", "auth.getUser">>]
  ELSE IF ~o.userIns
    THEN [err |-> "backend", db |-> b, calls |-> <<"users.select", "auth.getUser", "users.insert">>]
  ELSE [err |-> "", db |-> [b EXCEPT !.users = @ \cup {userId}],
        calls |-> <<"users.select", "auth.getUser", "users.insert">>]

\* JSON.stringify([v]): an undefined element is sent as null
JsonArr(v) == <<IF v = Undef THEN Null ELSE v>>

\* fileSize || 0
SizeOr0(n) == IF n = UndefNum THEN 0 ELSE n

\* the row .insert(...).select().single() stores: an undefined property is
\* not sent and the column is NULL; the id and both instants are the
\* backend's defaults
InsertRow(b, row) ==
  [b EXCEPT !.rows = [i \in DOMAIN b.rows \cup {b.nextId} |->
                        IF i = b.nextId
                          THEN [row EXCEPT !.uploaded_at = b.clock, !.updated_at = b.clock]
                          ELSE b.rows[i]],
            !.nextId = @ + 1,
            !.clock = @ + 1]

MkRow(file_name, file_path, file_url, file_size, mime_type, uploader_id, description, tags, is_public) ==
  [file_name |-> file_name, file_path |-> Sent(file_path, Null), file_url |-> file_url,
   file_size |-> file_size, mime_type |-> mime_type, uploader_id |-> uploader_id,
   description |-> Sent(description, Null), tags |-> tags, is_public |-> is_public,
   uploaded_at |-> 0, updated_at |-> 0]

\* createDataItem(payload) of part_003, after the check of the owner id
createBody_p003(org, b, p, o) ==
  LET u == ensureUser(b, p.userId, o, TRUE)
      resolved0 == Or(p.fileType, Or(getMimeTypeFromExt(p.fileName), Undef))
      hasFile == Truthy(p.fileData) /\ Truthy(p.fileName)
      conv == base64ToFile(p.fileData, p.fileName, resolved0)
      up == uploadFileToStorage(u.db, p.userId, o.upload)
      tried == hasFile /\ ~conv.threw
      uploaded == tried /\ ~up.threw
      b2 == IF tried THEN up.db ELSE u.db
      calls2 == u.calls \o (IF tried THEN up.calls ELSE <<>>)
      publicFileUrl == IF uploaded THEN up.publicUrl ELSE p.fileData
      storagePath == IF uploaded THEN up.storagePath ELSE Empty
      resolvedFileType ==
        IF uploaded /\ ~Truthy(resolved0)
          THEN Or(conv.file.type, Or(getMimeTypeFromExt(p.fileName), OctetStream))
          ELSE resolved0
      row == MkRow(Or(p.fileName, p.name), Or(storagePath, Empty),
                   Or(publicFileUrl, Or(p.fileData, Empty)), SizeOr0(p.fileSize),
                   Or(resolvedFileType, OctetStream), p.userId, p.description,
                   JsonArr(p.type), Truthy(p.fileData))
      b3 == InsertRow(b2, row)
      id == b2.nextId
  IN IF u.err # "" THEN Out(ResThrow(u.err), u.db, u.calls)
     ELSE IF ~o.insert THEN Out(ResThrow("backend"), b2, calls2 \o <<"photo_metadata.insert">>)
     ELSE Out(ResItem([id |-> ToStr(id), userId |-> p.userId, deviceId |-> p.deviceId,
                       type |-> p.type, name |-> p.name, description |-> p.description,
                       fileData |-> publicFileUrl, fileName |-> p.fileName,
                       fileType |-> resolvedFileType, fileSize |-> p.fileSize,
                       nfcLink |-> generateNFCLink(org, ToStr(id), p.type),
                       createdAt |-> b3.rows[id].uploaded_at,
                       updatedAt |-> b3.rows[id].uploaded_at, isPublic |-> "undefined"]),
              b3, calls2 \o <<"photo_metadata.insert">>)

\* createDataItem(payload) of part_003: the owner id is checked before any
\* backend call
createDataItem_p003(org, b, p, o) ==
  IF ~Truthy(p.userId) \/ ~IsString(p.userId) THEN Out(ResThrow("Invalid userId"), b, <<>>)
  ELSE createBody_p003(org, b, p, o)

\* an update payload: a column that is Undef / UndefNum / "undefined" is not
\* part of the object sent, so the row keeps its value
NoUpdate ==
  [file_name |-> Undef, file_path |-> Undef, file_url |-> Undef, file_size |-> UndefNum,
   mime_type |-> Undef, description |-> Undef, tags |-> Undef, is_public |-> "undefined",
   updated_at |-> FALSE]

\* .update(updateData).eq('id', n) on the backend
UpdateRow(b, n, ud) ==
  IF n \notin DOMAIN b.rows THEN b
  ELSE [b EXCEPT
         !.rows[n] = [file_name |-> Sent(ud.file_name, @.file_name),
                      file_path |-> Sent(ud.file_path, @.file_path),
                      file_url |-> Sent(ud.file_url, @.file_url),
                      file_size |-> IF ud.file_size = UndefNum THEN @.file_size ELSE ud.file_size,
                      mime_type |-> Sent(ud.mime_type, @.mime_type),
                      uploader_id |-> @.uploader_id,
                      description |-> Sent(ud.description, @.description),
                      tags |-> Sent(ud.tags, @.tags),
                      is_public |-> IF ud.is_public = "undefined" THEN @.is_public
                                    ELSE ud.is_public = "true",
                      uploaded_at |-> @.uploaded_at,
                      updated_at |-> IF ud.updated_at THEN b.clock ELSE @.updated_at],
         !.clock = @ + 1]

\* a Partial<DataItem> with nothing supplied
NoFields ==
  [userId |-> Undef, deviceId |-> Undef, type |-> Undef, name |-> Undef,
   description |-> Undef, fileData |-> Undef, fileName |-> Undef, fileType |-> Undef, fileSize |-> UndefNum,
   isPublic |-> "undefined"]

\* updateDataItem(id, updates, newFile) of part_003
updateDataItem_p003(org, b, id, updates, newFile, o) ==
  LET numericId == parseInt(id)
      resolved0 == Or(updates.fileType, Or(getMimeTypeFromExt(updates.fileName), Undef))
      withFile == newFile # NoFile /\ Truthy(updates.userId)
      up == uploadFileToStorage(b, updates.userId, o.upload)
      uploaded == withFile /\ ~up.threw
      b1 == IF withFile THEN up.db ELSE b
      calls1 == IF withFile THEN up.calls ELSE <<>>
      resolvedFileType ==
        IF uploaded /\ ~Truthy(resolved0)
          THEN Or(newFile.type, Or(getMimeTypeFromExt(newFile.name), OctetStream))
          ELSE resolved0
      cleared == ~withFile /\ updates.fileData # Undef /\ ~Truthy(updates.fileData)
      \* the if / else-if on the file
      u1 == IF uploaded
              THEN [NoUpdate EXCEPT !.file_url = up.publicUrl, !.file_path = up.storagePath,
                                    !.file_name = newFile.name, !.file_size = newFile.size,
                                    !.mime_type = resolvedFileType, !.is_public = "true"]
            ELSE IF withFile THEN NoUpdate
            ELSE IF cleared
              THEN [NoUpdate EXCEPT !.file_url = updates.fileData, !.file_name = Empty,
                                    !.file_size = 0, !.mime_type = OctetStream,
                                    !.file_path = Empty, !.is_public = "false"]
            ELSE [NoUpdate EXCEPT !.file_url = updates.fileData]
      \* the field-by-field merges that follow, in the order of the source
      u2 == [u1 EXCEPT
              !.file_name = IF newFile = NoFile /\ updates.fileName # Undef THEN updates.fileName
                            ELSE IF Truthy(updates.name) THEN updates.name ELSE @,
              !.description = IF updates.description # Undef THEN updates.description ELSE @,
              !.tags = IF Truthy(updates.type) THEN <<updates.type>> ELSE @,
              !.is_public = IF updates.isPublic # "undefined" THEN updates.isPublic ELSE @,
              !.file_size = IF newFile = NoFile /\ updates.fileSize # UndefNum
                              THEN updates.fileSize ELSE @,
              !.mime_type = IF newFile = NoFile /\ updates.fileType # Undef
                              THEN updates.fileType ELSE @,
              !.updated_at = TRUE]
      b2 == UpdateRow(b1, numericId.n, u2)
      got == getDataItem_p003(org, b2, id, o.get)
  IN IF numericId.nan THEN Out(ResNull, b, <<>>)
     ELSE IF ~o.update \/ numericId.n \notin DOMAIN b1.rows
       THEN Out(ResNull, b1, calls1 \o <<"photo_metadata.update">>)
       ELSE Out(got.res, b2, calls1 \o <<"photo_metadata.update">> \o got.calls)

\* mutant: switching the link off also drops the attachment, as the
\* cleared-file branch of updateDataItem does
updateLinkStatus_p003_clearing(b, id, newStatus, ok) ==
  LET numericId == parseInt(id)
  IN IF numericId.nan THEN Out(ResThrow("Invalid ID format"), b, <<>>)
     ELSE IF ~ok THEN Out(ResThrow("backend"), b, <<"photo_metadata.update">>)
     ELSE Out(ResVoid,
              UpdateRow(b, numericId.n,
                        IF newStatus
                          THEN [NoUpdate EXCEPT !.is_public = "true", !.updated_at = TRUE]
                          ELSE [NoUpdate EXCEPT !.is_public = "false", !.file_url = Empty,
                                                !.file_name = Empty, !.file_size = 0,
                                                !.mime_type = OctetStream, !.updated_at = TRUE]),
              <<"photo_metadata.update">>)

\* updateLinkStatus(id, newStatus) of part_003 (the same text in part_001)
updateLinkStatus_p003(b, id, newStatus, ok) ==
  LET numericId == parseInt(id)
  IN IF numericId.nan THEN Out(ResThrow("Invalid ID format"), b, <<>>)
     ELSE IF ~ok THEN Out(ResThrow("backend"), b, <<"photo_metadata.update">>)
     ELSE Out(ResVoid,
              UpdateRow(b, numericId.n,
                        [NoUpdate EXCEPT !.is_public = JsBool(newStatus), !.updated_at = TRUE]),
              <<"photo_metadata.update">>)

\* .delete().eq('id', n) on the backend
DeleteRow(b, n) == [b EXCEPT !.rows = [i \in DOMAIN b.rows \ {n} |-> b.rows[i]]]

\* deleteDataItem(id) of part_003 (the same text in part_001)
deleteDataItem_p003(b, id, ok) ==
  LET numericId == parseInt(id)
  IN IF numericId.nan THEN Out(ResBool(FALSE), b, <<>>)
     ELSE IF ~ok THEN Out(ResBool(FALSE), b, <<"photo_metadata.delete">>)
     ELSE Out(ResBool(TRUE), DeleteRow(b, numericId.n), <<"photo_metadata.delete">>)

\* getDataItemByNFCLink(link) of part_003 (the same text in part_001)
getDataItemByNFCLink(org, b, link, ok) ==
  LET id == LinkIdSegment(link)
  IN IF id = Null THEN Out(ResNull, b, <<>>) ELSE getDataItem_p003(org, b, id, ok)

\* ------------------------------------------------ src/unnamed/part_001
\* createDataItem(userId, deviceId, type, name, ...) of part_001; p holds the
\* arguments after the normalisation of a payload object passed first
createDataItem_p001(org, b, p, o) ==
  IF ~Truthy(p.userId) \/ ~IsString(p.userId) THEN Out(ResThrow("Invalid userId"), b, <<>>)
  ELSE
  LET u == ensureUser(b, p.userId, o, FALSE)
      resolved0 == Or(p.fileType, Or(getMimeTypeFromExt(p.fileName), Undef))
      hasFile == Truthy(p.fileData) /\ Truthy(p.fileName)
      conv == base64ToFile(p.fileData, p.fileName, resolved0)
      up == uploadFileToStorage(u.db, p.userId, o.upload)
      tried == hasFile /\ ~conv.threw
      uploaded == tried /\ ~up.threw
      b2 == IF tried THEN up.db ELSE u.db
      calls2 == u.calls \o (IF tried THEN up.calls ELSE <<>>)
      publicFileUrl == IF uploaded THEN up.publicUrl ELSE p.fileData
      resolvedFileType ==
        IF uploaded /\ ~Truthy(resolved0)
          THEN Or(conv.file.type, Or(getMimeTypeFromExt(p.fileName), OctetStream))
          ELSE resolved0
      row == MkRow(Or(p.fileName, p.name),
                   IF Truthy(publicFileUrl)
                     THEN <<"/">> \o Tpl(p.userId) \o <<"/", "ts-">> \o Tpl(Or(p.fileName, p.name))
                     ELSE Undef,
                   Or(publicFileUrl, Empty), SizeOr0(p.fileSize),
                   Or(resolvedFileType, OctetStream), p.userId, p.description,
                   JsonArr(p.type), Truthy(publicFileUrl))
      b3 == InsertRow(b2, row)
      id == b2.nextId
  IN IF u.err # "" THEN Out(ResThrow(u.err), u.db, u.calls)
     ELSE IF ~o.insert THEN Out(ResThrow("backend"), b2, calls2 \o <<"photo_metadata.insert">>)
     ELSE Out(ResItem([id |-> ToStr(id), userId |-> p.userId, deviceId |-> p.deviceId,
                       type |-> p.type, name |-> p.name, description |-> p.description,
                       fileData |-> publicFileUrl, fileName |-> p.fileName,
                       fileType |-> resolvedFileType, fileSize |-> p.fileSize,
                       nfcLink |-> generateNFCLink(org, ToStr(id), p.type),
                       createdAt |-> b3.rows[id].uploaded_at,
                       updatedAt |-> b3.rows[id].uploaded_at, isPublic |-> "undefined"]),
              b3, calls2 \o <<"photo_metadata.insert">>)

\* updateDataItem(id, updates) of part_001
updateDataItem_p001(org, b, id, updates, o) ==
  LET numericId == parseInt(id)
      ud == [NoUpdate EXCEPT
              !.file_name = IF Truthy(updates.name) THEN updates.name ELSE @,
              !.description = IF updates.description # Undef THEN updates.description ELSE @,
              !.tags = IF Truthy(updates.type) THEN <<updates.type>> ELSE @,
              !.is_public = IF updates.isPublic # "undefined" THEN updates.isPublic ELSE @]
      b2 == UpdateRow(b, numericId.n, ud)
      got == getDataItem_p003(org, b2, id, o.get)
  IN IF numericId.nan THEN Out(ResNull, b, <<>>)
     ELSE IF ~o.update \/ numericId.n \notin DOMAIN b.rows
       THEN Out(ResNull, b, <<"photo_metadata.update">>)
       ELSE Out(got.res, b2, <<"photo_metadata.update">> \o got.calls)

\* updateDataItemWithFile(id, updates, newFile) of part_001
updateDataItemWithFile_p001(org, b, id, updates, newFile, o) ==
  LET numericId == parseInt(id)
      resolved0 == Or(updates.fileType, Or(getMimeTypeFromExt(updates.fileName), Undef))
      withFile == newFile # NoFile /\ Truthy(updates.userId)
      up == uploadFileToStorage(b, updates.userId, o.upload)
      uploaded == withFile /\ ~up.threw
      b1 == IF withFile THEN up.db ELSE b
      calls1 == IF withFile THEN up.calls ELSE <<>>
      resolvedFileType ==
        IF uploaded /\ ~Truthy(resolved0)
          THEN Or(newFile.type, Or(getMimeTypeFromExt(newFile.name), OctetStream))
          ELSE resolved0
      \* the assignments to updates after a successful upload
      upd == IF uploaded
               THEN [updates EXCEPT !.fileData = up.publicUrl, !.fileName = newFile.name,
                                    !.fileSize = newFile.size, !.fileType = resolvedFileType,
                                    !.isPublic = "true"]
               ELSE updates
      ud == [NoUpdate EXCEPT
              !.file_name = IF upd.fileName # Undef THEN upd.fileName
                            ELSE IF Truthy(upd.name) THEN upd.name ELSE @,
              !.description = IF upd.description # Undef THEN upd.description ELSE @,
              !.tags = IF Truthy(upd.type) THEN <<upd.type>> ELSE @,
              !.file_url = upd.fileData,
              !.file_size = upd.fileSize,
              !.mime_type = upd.fileType,
              !.is_public = upd.isPublic,
              !.updated_at = TRUE]
      b2 == UpdateRow(b1, numericId.n, ud)
      got == getDataItem_p003(org, b2, id, o.get)
  IN IF numericId.nan THEN Out(ResNull, b, <<>>)
     ELSE IF ~o.update \/ numericId.n \notin DOMAIN b1.rows
       THEN Out(ResNull, b1, calls1 \o <<"photo_metadata.update">>)
       ELSE Out(got.res, b2, calls1 \o <<"photo_metadata.update">> \o got.calls)

\* ------------------------------------ src/src/services/dataService.ts
\* getDeviceId(): the identifier kept in localStorage
DeviceId == <<"device-uuid">>

\* uploadFileToStorage(file, userId) of dataService.ts: the URL is returned
\* as getPublicUrl gives it, without a check
uploadFileToStorage_svc(b, userId, how) ==
  LET n == b.uploads + 1
  IN [threw |-> how = "err",
      publicUrl |-> IF how = "nourl" THEN Null ELSE <<"url#">> \o ToStr(n),
      db |-> IF how = "err" THEN b ELSE [b EXCEPT !.uploads = n],
      calls |-> <<"storage.upload">>]

rowToItem_svc(org, id, r) ==
  [id |-> ToStr(id), userId |-> r.uploader_id, deviceId |-> DeviceId,
   type |-> Or(TagHead(r.tags), <<"unknown">>), name |-> r.file_name,
   description |-> Or(r.description, Empty), fileData |-> Or(r.file_url, Empty),
   fileName |-> r.file_name, fileType |-> r.mime_type, fileSize |-> r.file_size,
   nfcLink |-> generateNFCLink(org, ToStr(id), Or(TagHead(r.tags), <<"unknown">>)),
   createdAt |-> r.uploaded_at, updatedAt |-> r.updated_at, isPublic |-> JsBool(r.is_public)]

\* addDataItem(data, newFile) of dataService.ts
addDataItem_svc(org, b, data, newFile, o) ==
  IF ~Truthy(data.userId) \/ ~Truthy(data.type) \/ ~Truthy(data.name)
    THEN Out(ResThrow("Missing required fields: userId, type, or name"), b, <<>>)
  ELSE
  LET up == uploadFileToStorage_svc(b, data.userId, o.upload)
      hasFile == newFile # NoFile
      b1 == IF hasFile THEN up.db ELSE b
      calls1 == IF hasFile THEN up.calls ELSE <<>>
      fileUrl == IF hasFile THEN up.publicUrl ELSE Empty
      fileName == IF hasFile THEN newFile.name ELSE Empty
      fileType == IF hasFile THEN newFile.type ELSE Empty
      fileSize == IF hasFile THEN newFile.size ELSE 0
      row == MkRow(Or(fileName, data.name),
                   <<"/">> \o Tpl(data.userId) \o <<"/", "ts-">> \o Tpl(Or(fileName, data.name)),
                   Or(fileUrl, Empty), SizeOr0(fileSize), Or(fileType, OctetStream),
                   data.userId, Or(data.description, Empty), JsonArr(data.type), TRUE)
      b2 == InsertRow(b1, row)
      id == b1.nextId
  IN IF hasFile /\ up.threw THEN Out(ResThrow("backend"), b1, calls1)
     ELSE IF ~o.insert THEN Out(ResThrow("backend"), b1, calls1 \o <<"photo_metadata.insert">>)
     ELSE Out(ResItem([id |-> ToStr(id), userId |-> data.userId, deviceId |-> DeviceId,
                       type |-> data.type, name |-> data.name,
                       description |-> Or(data.description, Empty),
                       fileData |-> Or(fileUrl, Empty), fileName |-> fileName,
                       fileType |-> fileType, fileSize |-> fileSize,
                       nfcLink |-> generateNFCLink(org, ToStr(id), data.type),
                       createdAt |-> b2.rows[id].uploaded_at,
                       updatedAt |-> b2.rows[id].updated_at,
                       isPublic |-> JsBool(b2.rows[id].is_public)]),
              b2, calls1 \o <<"photo_metadata.insert">>)

\* getDataItem(id) of dataService.ts: the id goes to the backend as text
getDataItem_svc(org, b, id, ok) ==
  LET n == pgInt(id)
  IN IF ~ok \/ n.nan \/ n.n \notin DOMAIN b.rows
       THEN Out(ResNull, b, <<"photo_metadata.select">>)
       ELSE Out(ResItem(rowToItem_svc(org, n.n, b.rows[n.n])), b, <<"photo_metadata.select">>)

\* updateLinkStatus(id, newStatus) of dataService.ts
updateLinkStatus_svc(b, id, newStatus, ok) ==
  LET n == pgInt(id)
  IN IF ~ok \/ n.nan THEN Out(ResThrow("backend"), b, <<"photo_metadata.update">>)
     ELSE Out(ResBool(TRUE),
              UpdateRow(b, n.n, [NoUpdate EXCEPT !.is_public = JsBool(newStatus)]),
              <<"photo_metadata.update">>)

\* deleteDataItem(id) of dataService.ts
deleteDataItem_svc(b, id, ok) ==
  LET n == pgInt(id)
  IN IF ~ok \/ n.nan THEN Out(ResThrow("backend"), b, <<"photo_metadata.delete">>)
     ELSE Out(ResBool(TRUE), DeleteRow(b, n.n), <<"photo_metadata.delete">>)

\* updateDataItemWithFile(id, updatedData, newFile) of dataService.ts
updateDataItemWithFile_svc(org, b, id, updatedData, newFile, o) ==
  LET n == pgInt(id)
      hasFile == newFile # NoFile
      up == uploadFileToStorage_svc(b, updatedData.userId, o.upload)
      b1 == IF hasFile THEN up.db ELSE b
      calls1 == IF hasFile THEN up.calls ELSE <<>>
      fileUrl == IF hasFile THEN up.publicUrl ELSE updatedData.fileData
      fileName == IF hasFile THEN newFile.name ELSE updatedData.fileName
      fileType == IF hasFile THEN newFile.type ELSE updatedData.fileType
      fileSize == IF hasFile THEN newFile.size ELSE updatedData.fileSize
      updatePayload ==
        [NoUpdate EXCEPT !.file_name = Or(fileName, updatedData.name),
                         !.file_url = Or(fileUrl, Empty),
                         !.file_size = SizeOr0(fileSize),
                         !.mime_type = Or(fileType, OctetStream),
                         !.description = Or(updatedData.description, Empty),
                         !.tags = JsonArr(updatedData.type),
                         !.updated_at = TRUE]
      b2 == UpdateRow(b1, n.n, updatePayload)
  IN IF hasFile /\ up.threw THEN Out(ResThrow("backend"), b1, calls1)
     ELSE IF ~o.update \/ n.nan \/ n.n \notin DOMAIN b1.rows
       THEN Out(ResThrow("backend"), b1, calls1 \o <<"photo_metadata.update">>)
       ELSE Out(ResItem([id |-> ToStr(n.n), userId |-> updatedData.userId,
                         deviceId |-> Or(updatedData.deviceId, DeviceId),
                         type |-> updatedData.type,
                         name |-> updatedData.name,
                         description |-> Or(updatedData.description, Empty),
                         fileData |-> Or(fileUrl, Empty), fileName |-> fileName,
                         fileType |-> fileType, fileSize |-> fileSize,
                         nfcLink |-> org \o <<"/", "nfc", "/">> \o Tpl(updatedData.type)
                                       \o <<"/">> \o ToStr(n.n),
                         createdAt |-> b2.rows[n.n].uploaded_at,
                         updatedAt |-> b2.rows[n.n].updated_at,
                         isPublic |-> JsBool(b2.rows[n.n].is_public)]),
                b2, calls1 \o <<"photo_metadata.update">>)

\* ------------------------------------------------ data-layer calls
\* the inputs the calls are tried on
U1 == <<"u1">>
\* an owner id that is a number
NotAString == <<"$number", "7">>
OwnerIds == {Undef, Empty, NotAString, U1}
IdInputs == {<<"1">>, <<"2">>, <<"1", "x">>, <<"x">>}
B64Png == <<"data", ":", "image/png", ";", "base64", ",", "QUJD">>
FilePng == MkFile(<<"f", ".", "png">>, <<"image/png">>, 5)
FilePdf == MkFile(<<"g", ".", "pdf">>, <<"application/pdf">>, 7)

\* the payloads of create: no file, or an encoded file with its name
CreateInputs ==
  { [NoFields EXCEPT !.userId = u, !.deviceId = <<"web">>, !.type = <<"photo">>,
                     !.name = <<"A">>, !.description = d]
      : u \in OwnerIds, d \in {Undef, <<"d">>} }
  \cup
  { [NoFields EXCEPT !.userId = u, !.deviceId = <<"web">>, !.type = <<"photo">>,
                     !.name = <<"A">>, !.fileData = B64Png,
                     !.fileName = <<"f", ".", "png">>, !.fileSize = 5]
      : u \in OwnerIds }

\* the fields of update: a description alone, and the two shapes the edit
\* form submits (name blank or not)
OnlyDescription == [NoFields EXCEPT !.description = <<"e">>]
UpdateInputs ==
  { OnlyDescription,
    [NoFields EXCEPT !.userId = U1, !.name = <<"B">>, !.type = <<"document">>],
    [NoFields EXCEPT !.userId = U1, !.description = <<"e">>, !.type = <<"photo">>] }

\* the outcomes of the backend calls of one create, one per way the calls
\* can go: a call that is not reached has no outcome of its own
CreateOutcomes ==
  { o \in [userSel : BOOLEAN, auth : {"ok", "err", "nouser", "noemail"}, userIns : BOOLEAN,
           upload : {"ok", "err", "nourl"}, insert : BOOLEAN] :
      /\ ~o.userSel => o.auth = "ok"
      /\ (~o.userSel \/ o.auth # "ok") => o.userIns
      /\ (~o.userSel \/ o.auth # "ok" \/ ~o.userIns) => (o.upload = "ok" /\ o.insert) }
UpdateOutcomes ==
  { o \in [upload : {"ok", "err", "nourl"}, update : BOOLEAN, get : BOOLEAN] :
      ~o.update => o.get }

NoPrev == [op |-> "none", id |-> Undef, st |-> FALSE, db |-> 0]

\* the record of a data-layer call
Call(op, id, args, file, st, ok, out, pre) ==
  [op |-> op, id |-> id, args |-> args, file |-> file, st |-> st, ok |-> ok,
   res |-> out.res, calls |-> out.calls, pre |-> pre]

\* what the call before the last one leaves to compare with: a successful
\* updateLinkStatus and the backend it started from
Remember(l) ==
  IF l.op = "updateLinkStatus" /\ l.res.kind # "throw"
    THEN [op |-> l.op, id |-> l.id, st |-> l.st, db |-> l.pre]
    ELSE NoPrev

Finish(op, id, args, file, st, ok, out) ==
  /\ nOps < MaxOps
  /\ db' = out.db
  /\ last' = Call(op, id, args, file, st, ok, out, db)
  /\ prev' = Remember(last)
  /\ made' = IF op = "create" /\ out.res.kind = "item"
               THEN [k \in DOMAIN made \cup {out.res.item.id} |->
                       IF k = out.res.item.id THEN [args |-> args, file |-> file] ELSE made[k]]
               ELSE made
  /\ nOps' = nOps + 1
  /\ UNCHANGED <<impl, origin>>
  /\ UNCHANGED nfcVars
  /\ UNCHANGED uiVars

\* create: createDataItem (part_003, part_001) or addDataItem (dataService.ts)
Create(p, file, o) ==
  /\ db.nextId <= MaxRows
  /\ ~IsString(p.userId) => ~o.insert   \* the insert policy: uploader_id = auth.uid()
  /\ IF impl = "svc"
       THEN /\ p.fileData = Undef
            /\ Finish("create", Undef, p, file, FALSE, o.insert, addDataItem_svc(origin, db, p, file, o))
       ELSE /\ file = NoFile
            /\ Finish("create", Undef, p, file, FALSE, o.insert,
                      IF impl = "p003" THEN createDataItem_p003(origin, db, p, o)
                      ELSE createDataItem_p001(origin, db, p, o))

\* get: getDataItem
Get(id, ok) ==
  Finish("get", id, NoFields, NoFile, FALSE, ok,
         IF impl = "svc" THEN getDataItem_svc(origin, db, id, ok)
         ELSE getDataItem_p003(origin, db, id, ok))

\* update: updateDataItem (part_003), updateDataItemWithFile (part_001,
\* dataService.ts)
Update(id, updates, file, o) ==
  Finish("update", id, updates, file, FALSE,
         o.update /\ o.get /\ (IF file = NoFile THEN TRUE ELSE o.upload = "ok"),
         IF impl = "svc" THEN updateDataItemWithFile_svc(origin, db, id, updates, file, o)
         ELSE IF impl = "p003" THEN updateDataItem_p003(origin, db, id, updates, file, o)
         ELSE updateDataItemWithFile_p001(origin, db, id, updates, file, o))

\* update without a file argument: updateDataItem of part_001
UpdateNoFile(id, updates, o) ==
  /\ impl = "p001"
  /\ Finish("update", id, updates, NoFile, FALSE, o.update /\ o.get,
            updateDataItem_p001(origin, db, id, updates, o))

\* setLinkEnabled: updateLinkStatus
UpdateLinkStatus(id, newStatus, ok) ==
  Finish("updateLinkStatus", id, NoFields, NoFile, newStatus, ok,
         IF impl = "svc" THEN updateLinkStatus_svc(db, id, newStatus, ok)
         ELSE updateLinkStatus_p003(db, id, newStatus, ok))

\* delete: deleteDataItem
Delete(id, ok) ==
  Finish("delete", id, NoFields, NoFile, FALSE, ok,
         IF impl = "svc" THEN deleteDataItem_svc(db, id, ok)
         ELSE deleteDataItem_p003(db, id, ok))

\* the sharing link of a stored row, as the data layer reports it
LinkOfRow(n) ==
  IF impl = "svc" THEN rowToItem_svc(origin, n, db.rows[n]).nfcLink
  ELSE rowToItem_p003(origin, n, db.rows[n]).nfcLink

\* resolveByLink: getDataItemByNFCLink on the link of a stored item
ResolveByLink(n, ok) ==
  /\ impl # "svc"
  /\ n \in DOMAIN db.rows
  /\ Finish("resolveByLink", ToStr(n), [NoFields EXCEPT !.fileData = LinkOfRow(n)], NoFile, FALSE, ok,
            getDataItemByNFCLink(origin, db, LinkOfRow(n), ok))

\* the backend with nothing stored
EmptyBackend == [rows |-> <<>>, nextId |-> 1, users |-> {}, uploads |-> 0, clock |-> 1]

\* no data-layer call was made yet
NoCall == [op |-> "none", id |-> Undef]

\* an NFC controller step: which handler, and which invocation of it
Ev(ev, i) == [ev |-> ev, i |-> i]

\* NFCViewer and DataManager as they mount, a user being signed in
NoToast == [type |-> "none", title |-> <<>>]
\* no modal is rendered, so there is no form; nothing was submitted yet
NoModal == [mode |-> "none"]
NoSubmission == [mode |-> "none"]
InitUI ==
  /\ viewer = [loading |-> TRUE, error |-> Null, dataItem |-> NoItem]
  /\ linkStatus = <<>>
  /\ toggles = <<>>
  /\ toast = NoToast
  /\ user = U1
  /\ managerItems = <<>>
  /\ deletes = <<>>
  /\ modal = NoModal
  /\ submitted = NoSubmission

InitNFC ==
  /\ mount = [check |-> "pending", load |-> "pending", scan |-> "none"]
  /\ nfcStatus = [supported |-> FALSE, available |-> FALSE, reading |-> FALSE,
                  writing |-> FALSE, lastRead |-> 0, lastWrite |-> 0]
  /\ message = <<>>
  /\ messageType = "info"
  /\ dataItems = {}
  /\ selectedDataItem = Empty
  /\ reads = <<>>
  /\ writes = <<>>
  /\ hw = <<>>
  /\ tagEvents = 0
  /\ nfcEv = Ev("none", 0)
  /\ InitUI

Init ==
  /\ impl \in Impls
  /\ origin \in Origins
  /\ db = EmptyBackend
  /\ nOps = 0
  /\ last = NoCall
  /\ prev = NoPrev
  /\ made = <<>>
  /\ ndefInWindow = TRUE
  /\ InitNFC

Next ==
  \/ \E p \in CreateInputs, f \in {NoFile, FilePng}, o \in CreateOutcomes : Create(p, f, o)
  \/ \E id \in IdInputs, ok \in BOOLEAN : Get(id, ok)
  \/ \E id \in IdInputs, u \in UpdateInputs, f \in {NoFile, FilePdf}, o \in UpdateOutcomes :
       Update(id, u, f, o)
  \/ \E id \in IdInputs, u \in UpdateInputs, o \in UpdateOutcomes : UpdateNoFile(id, u, o)
  \/ \E id \in IdInputs, st \in BOOLEAN, ok \in BOOLEAN : UpdateLinkStatus(id, st, ok)
  \/ \E id \in IdInputs, ok \in BOOLEAN : Delete(id, ok)
  \/ \E n \in 1..MaxRows, ok \in BOOLEAN : ResolveByLink(n, ok)

Spec == Init /\ [][Next]_vars

\* the data layer with one owner: items are created, edited, and their
\* links switched
LinkCreateInputs == { p \in CreateInputs : p.userId = U1 }
LinkCreateOutcomes == { o \in CreateOutcomes : o.userSel /\ o.auth = "ok" /\ o.userIns }
NextLink ==
  \/ \E p \in LinkCreateInputs, f \in {NoFile, FilePng}, o \in LinkCreateOutcomes : Create(p, f, o)
  \/ \E id \in {<<"1">>, <<"2">>}, u \in UpdateInputs, f \in {NoFile, FilePdf}, o \in UpdateOutcomes :
       Update(id, u, f, o)
  \/ \E id \in {<<"1">>, <<"2">>}, st \in BOOLEAN, ok \in BOOLEAN : UpdateLinkStatus(id, st, ok)

SpecLink == Init /\ [][NextLink]_vars

\* ------------------------------------------------ getDataItems
\* a sequence of items returned
ResList(its) == [kind |-> "list", item |-> NoItem, err |-> "", ok |-> TRUE, items |-> its]

\* .eq('uploader_id', userId)
OwnedRows(b, userId) == { n \in DOMAIN b.rows : b.rows[n].uploader_id = userId }
\* .contains('tags', [type])
TypedRows(b, userId, type) ==
  { n \in OwnedRows(b, userId) : b.rows[n].tags # Null /\ \E i \in DOMAIN b.rows[n].tags : b.rows[n].tags[i] = type }

\* the orders a select can return a set of rows in
Orders(S) ==
  { f \in [1..Cardinality(S) -> S] : \A i, j \in 1..Cardinality(S) : f[i] = f[j] => i = j }
\* .order('uploaded_at', { ascending: false })
UploadedDesc(b, f) ==
  \A i, j \in DOMAIN f : i < j => b.rows[f[i]].uploaded_at >= b.rows[f[j]].uploaded_at

\* getDataItems(userId) of part_003 and part_001: the rows come ordered
getDataItems_p003(org, b, userId, ok, order) ==
  IF ~ok THEN Out(ResThrow("backend"), b, <<"photo_metadata.select">>)
  ELSE Out(ResList([i \in DOMAIN order |-> rowToItem_p003(org, order[i], b.rows[order[i]])]),
           b, <<"photo_metadata.select">>)

\* getDataItemsByType(userId, type) of part_003 and part_001
getDataItemsByType_p003(org, b, userId, type, ok, order) ==
  getDataItems_p003(org, b, userId, ok, order)

\* getDataItems(userId) of dataService.ts: the select names no order, the
\* rows come in the order the backend picks
getDataItems_svc(org, b, userId, ok, order) ==
  IF ~ok THEN Out(ResThrow("backend"), b, <<"photo_metadata.select">>)
  ELSE Out(ResList([i \in DOMAIN order |-> rowToItem_svc(org, order[i], b.rows[order[i]])]),
           b, <<"photo_metadata.select">>)

\* list: getDataItems
List(userId, ok, order) ==
  /\ order \in Orders(OwnedRows(db, userId))
  /\ impl # "svc" => UploadedDesc(db, order)
  /\ Finish("list", userId, NoFields, NoFile, FALSE, ok,
            IF impl = "svc" THEN getDataItems_svc(origin, db, userId, ok, order)
            ELSE getDataItems_p003(origin, db, userId, ok, order))

\* listByType: getDataItemsByType
ListByType(userId, type, ok, order) ==
  /\ impl # "svc"
  /\ order \in Orders(TypedRows(db, userId, type))
  /\ UploadedDesc(db, order)
  /\ Finish("listByType", userId, [NoFields EXCEPT !.type = type], NoFile, FALSE, ok,
            getDataItemsByType_p003(origin, db, userId, type, ok, order))

\* the data layer with two owners: items are created, edited, read one by
\* one and listed
U2 == <<"u2">>
ListCreateInputs ==
  { [NoFields EXCEPT !.userId = u, !.deviceId = <<"web">>, !.type = t, !.name = <<"A">>]
      : u \in {U1, U2}, t \in {<<"photo">>, <<"document">>} }
ListOutcomes == { o \in CreateOutcomes : o.auth = "ok" /\ o.userIns /\ o.upload = "ok" }
UpdateOk == [upload |-> "ok", update |-> TRUE, get |-> TRUE]
NextList ==
  \/ \E p \in ListCreateInputs, o \in ListOutcomes : Create(p, NoFile, o)
  \/ \E id \in {<<"1">>, <<"2">>}, ok \in BOOLEAN : Get(id, ok)
  \/ \E id \in {<<"1">>, <<"2">>} : Update(id, OnlyDescription, NoFile, UpdateOk)
  \/ \E u \in {U1, U2}, ok \in BOOLEAN, order \in UNION { Orders(S) : S \in SUBSET (1..MaxRows) } :
       List(u, ok, order)
  \/ \E u \in {U1, U2}, t \in {<<"photo">>, <<"other">>}, ok \in BOOLEAN,
        order \in UNION { Orders(S) : S \in SUBSET (1..MaxRows) } : ListByType(u, t, ok, order)

SpecList == Init /\ [][NextList]_vars

\* ------------------------------- src/src/components/NFCManager.tsx
MaxTags == 1      \* tags brought to the device in one behaviour

\* the signed-in user of useAuth()
User == [id |-> U1]

\* the ids of getDataItems(userId): the rows of that uploader
getDataItems(b, userId) ==
  { ToStr(n) : n \in { k \in DOMAIN b.rows : b.rows[k].uploader_id = userId } }

\* getDataItem of the DataService module in use
getDataItem(org, b, id, ok) ==
  IF impl = "svc" THEN getDataItem_svc(org, b, id, ok) ELSE getDataItem_p003(org, b, id, ok)

\* new Date().toLocaleTimeString(): later events carry later times
Now == 1 + tagEvents + Cardinality({ i \in DOMAIN writes : writes[i].pc = "written" })

\* the state updates of one handler step
SetNFC(st, msg, type, ev) ==
  /\ nfcStatus' = st
  /\ message' = msg
  /\ messageType' = type
  /\ nfcEv' = ev

NfcFrame ==
  /\ UNCHANGED <<impl, origin, db, nOps, last, prev, made, ndefInWindow>>
  /\ UNCHANGED uiVars

\* loadDataItems of the mount effect
LoadDataItems(ok) ==
  /\ mount.load = "pending"
  /\ mount' = [mount EXCEPT !.load = "done"]
  /\ dataItems' = IF ok THEN getDataItems(db, User.id) ELSE dataItems
  /\ nfcEv' = Ev("load", 0)
  /\ UNCHANGED <<nfcStatus, message, messageType, selectedDataItem, reads, writes, hw, tagEvents>>
  /\ NfcFrame

\* checkNFCSupport of the mount effect, up to its await
CheckNFCSupport ==
  /\ mount.check = "pending"
  /\ IF ndefInWindow
       THEN /\ mount' = [mount EXCEPT !.check = "scan"]
            /\ SetNFC([nfcStatus EXCEPT !.supported = TRUE],
                      <<"NFC is supported on this device">>, "success", Ev("check", 0))
       ELSE /\ mount' = [mount EXCEPT !.check = "done"]
            /\ SetNFC(nfcStatus,
                      <<"NFC is not supported on this device or browser. Use Chrome on Android for NFC functionality.">>,
                      "error", Ev("check", 0))
  /\ UNCHANGED <<dataItems, selectedDataItem, reads, writes, hw, tagEvents>>
  /\ NfcFrame

\* the scan of checkNFCSupport settles
ScanOutcomes == {"ok", "NotAllowedError", "NotReadableError"}

\* the message of the inner catch with one text for every error
CheckFailureMessage_same(name) == <<"NFC is not available. Please check your device settings.">>

\* the message the inner catch of checkNFCSupport sets for an error of that name
CheckFailureMessage(name) ==
  IF name = "NotAllowedError"
    THEN <<"NFC permission denied. Please enable NFC and grant permission.">>
    ELSE <<"NFC is not available. Please check your device settings.">>

CheckScan(outcome) ==
  /\ mount.check = "scan"
  /\ mount' = [mount EXCEPT !.check = "done", !.scan = outcome]
  /\ IF outcome = "ok"
       THEN SetNFC([nfcStatus EXCEPT !.available = TRUE], <<"NFC is ready to use">>,
                   messageType, Ev("check_scan", 0))
       ELSE SetNFC(nfcStatus, CheckFailureMessage(outcome), "error", Ev("check_scan", 0))
  /\ UNCHANGED <<dataItems, selectedDataItem, reads, writes, hw, tagEvents>>
  /\ NfcFrame

\* the select's onChange
SelectDataItem(v) ==
  /\ v \in dataItems \cup {Empty}
  /\ v # selectedDataItem
  /\ selectedDataItem' = v
  /\ nfcEv' = Ev("select", 0)
  /\ UNCHANGED <<mount, nfcStatus, message, messageType, dataItems, reads, writes, hw, tagEvents>>
  /\ NfcFrame

\* a readNFC invocation: the nfcStatus its closure captured at the click,
\* where it stands, its 30 s timer, the order its scan opened in, and what
\* has happened since (a tag delivered to its listener, a stopNFC)
ReadSession(cap) ==
  [cap |-> cap, pc |-> "scan", timer |-> "none", ord |-> 0, tagged |-> FALSE, stopped |-> FALSE,
   error |-> "none"]

ReadTimeoutMsg == <<"Read timeout. No NFC tag detected.">>

\* the read button's onClick: readNFC up to its await
ReadNFC ==
  /\ ~(~nfcStatus.supported \/ nfcStatus.reading \/ nfcStatus.writing)
  /\ Len(reads) + Len(writes) < MaxCalls
  /\ IF ~nfcStatus.supported
       THEN /\ SetNFC(nfcStatus, <<"NFC is not supported on this device">>, "error",
                      Ev("read", 0))
            /\ UNCHANGED reads
       ELSE /\ SetNFC([nfcStatus EXCEPT !.reading = TRUE],
                      <<"Hold your device close to an NFC tag to read...">>, "info",
                      Ev("read", Len(reads) + 1))
            /\ reads' = Append(reads, ReadSession(nfcStatus))
  /\ UNCHANGED <<mount, dataItems, selectedDataItem, writes, hw, tagEvents>>
  /\ NfcFrame

\* ndef.scan() of readNFC resolves: the listener is added, the timer set
ReadScanOpens(i) ==
  /\ i \in DOMAIN reads
  /\ reads[i].pc = "scan"
  /\ reads' = [reads EXCEPT ![i].pc = "open", ![i].timer = "set",
                            ![i].ord = 1 + Cardinality({ j \in DOMAIN reads : reads[j].ord > 0 })]
  /\ nfcEv' = Ev("read_open", i)
  /\ UNCHANGED <<mount, nfcStatus, message, messageType, dataItems, selectedDataItem, writes,
                 hw, tagEvents>>
  /\ NfcFrame

\* error.message of a rejected hardware call
ErrorMessage(name) == <<"(", name, ")">>

\* ndef.scan() of readNFC rejects: the catch block
ReadScanFails(i, name) ==
  /\ i \in DOMAIN reads
  /\ reads[i].pc = "scan"
  /\ reads' = [reads EXCEPT ![i].pc = "failed", ![i].error = name]
  /\ SetNFC([nfcStatus EXCEPT !.reading = FALSE],
            <<"[cross] NFC Read Failed: ">> \o ErrorMessage(name), "error", Ev("read_failed", i))
  /\ UNCHANGED <<mount, dataItems, selectedDataItem, writes, hw, tagEvents>>
  /\ NfcFrame

\* the tags brought to the device: no record, a text record, or a first
\* record without a text encoding (TextDecoder(null) throws a RangeError)
TagInputs ==
  { [serialNumber |-> <<"04:a1">>, records |-> <<>>],
    [serialNumber |-> <<"04:a1">>, records |-> << [encoding |-> <<"utf-8">>, data |-> <<"hi">>] >>],
    [serialNumber |-> <<"04:b2">>, records |-> << [encoding |-> Null, data |-> <<"u">>] >>] }

\* a tag is brought to the device: the 'reading' listener of every open
\* scan session runs
TagRead(tag) ==
  /\ tagEvents < MaxTags
  /\ \E i \in DOMAIN reads : reads[i].pc = "open"
  /\ tagEvents' = tagEvents + 1
  /\ reads' = [i \in DOMAIN reads |->
                 IF reads[i].pc = "open" THEN [reads[i] EXCEPT !.tagged = TRUE] ELSE reads[i]]
  /\ nfcStatus' = [nfcStatus EXCEPT !.reading = FALSE, !.lastRead = Now]
  /\ nfcEv' = Ev("tag", 0)
  /\ IF tag.records # <<>> /\ tag.records[1].encoding = Null
       THEN UNCHANGED <<message, messageType>>
       ELSE /\ message' = <<"[check] NFC Read Successful!\nSerial: ">> \o Tpl(tag.serialNumber)
                          \o <<"\nContent: ">>
                          \o (IF Len(tag.records) > 0 THEN tag.records[1].data
                              ELSE <<"Unknown data">>)
            /\ messageType' = "success"
  /\ UNCHANGED <<mount, dataItems, selectedDataItem, writes, hw>>
  /\ NfcFrame

\* the timer of a read session fires, 30 s after its scan opened: the
\* callback tests the nfcStatus its closure captured
\* the test of the timer callback made on the state of the current render
TimerSeesReading_current(i) == nfcStatus.reading

\* if (nfcStatus.reading) of the timer callback: the nfcStatus of the render
\* readNFC was called from
TimerSeesReading(i) == reads[i].cap.reading

ReadTimeout(i) ==
  /\ i \in DOMAIN reads
  /\ reads[i].timer = "set"
  /\ \A j \in DOMAIN reads : reads[j].timer = "set" => reads[j].ord >= reads[i].ord
  /\ reads' = [reads EXCEPT ![i].timer = "fired"]
  /\ IF TimerSeesReading(i)
       THEN SetNFC([nfcStatus EXCEPT !.reading = FALSE], ReadTimeoutMsg, "error",
                   Ev("read_timeout", i))
       ELSE SetNFC(nfcStatus, message, messageType, Ev("read_timeout", i))
  /\ UNCHANGED <<mount, dataItems, selectedDataItem, writes, hw, tagEvents>>
  /\ NfcFrame

\* the stop button's onClick
StopNFC ==
  /\ nfcStatus.reading \/ nfcStatus.writing
  /\ SetNFC([nfcStatus EXCEPT !.reading = FALSE, !.writing = FALSE],
            <<"NFC operation stopped">>, "info", Ev("stop", 0))
  /\ reads' = [i \in DOMAIN reads |-> [reads[i] EXCEPT !.stopped = TRUE]]
  /\ UNCHANGED <<mount, dataItems, selectedDataItem, writes, hw, tagEvents>>
  /\ NfcFrame

\* a writeNFC invocation: the selection its closure captured, where it
\* stands, the item its lookup returned, and the is_public column the
\* backend held for that id when the lookup ran
WriteCall(sel) ==
  [sel |-> sel, pc |-> "lookup", item |-> NoItem, stored |-> "undefined", error |-> "none"]

WriteRefusedMsg ==
  <<"[cross] Cannot write a link that is turned off. Please enable the link in the Data Manager.">>

\* the message handed to ndef.write: a text record and a url record
NdefMessage(dataItem) ==
  << [recordType |-> "text",
      data |-> <<"ZButton ">> \o Tpl(getDataTypeConfig(dataItem.type).name) \o <<": ">>
               \o Tpl(dataItem.name)],
     [recordType |-> "url", data |-> dataItem.nfcLink] >>

\* !dataItem.isPublic with no refusal at all
LinkIsOff_never(dataItem) == FALSE

\* !dataItem.isPublic
LinkIsOff(dataItem) == dataItem.isPublic # "true"

\* the write button's onClick: writeNFC up to its await
WriteNFC ==
  /\ ~(~nfcStatus.supported \/ nfcStatus.writing \/ nfcStatus.reading \/ ~Truthy(selectedDataItem))
  /\ Len(reads) + Len(writes) < MaxCalls
  /\ IF ~Truthy(selectedDataItem)
       THEN /\ SetNFC(nfcStatus, <<"Please select a data item to write to NFC">>, "error",
                      Ev("write", 0))
            /\ UNCHANGED writes
     ELSE IF ~nfcStatus.supported
       THEN /\ SetNFC(nfcStatus, <<"NFC is not supported on this device">>, "error",
                      Ev("write", 0))
            /\ UNCHANGED writes
     ELSE /\ SetNFC(nfcStatus, message, messageType, Ev("write", Len(writes) + 1))
          /\ writes' = Append(writes, WriteCall(selectedDataItem))
  /\ UNCHANGED <<mount, dataItems, selectedDataItem, reads, hw, tagEvents>>
  /\ NfcFrame

\* the is_public column of the row an id addresses
StoredFlag(b, n) == IF ~n.nan /\ n.n \in DOMAIN b.rows THEN JsBool(b.rows[n.n].is_public) ELSE "undefined"

\* getDataItem of writeNFC settles: not found, refused, or the hardware
\* write is issued
WriteLookup(i, ok) ==
  /\ i \in DOMAIN writes
  /\ writes[i].pc = "lookup"
  /\ LET res == getDataItem(origin, db, writes[i].sel, ok).res
         dataItem == res.item
         n == IF impl = "svc" THEN pgInt(writes[i].sel) ELSE parseInt(writes[i].sel)
         w == [writes[i] EXCEPT !.item = dataItem, !.stored = StoredFlag(db, n)]
     IN IF res.kind # "item"
          THEN /\ SetNFC(nfcStatus, <<"Selected data item not found">>, "error",
                         Ev("write_notfound", i))
               /\ writes' = [writes EXCEPT ![i] = [w EXCEPT !.pc = "notfound"]]
               /\ UNCHANGED hw
        ELSE IF LinkIsOff(dataItem)
          THEN /\ SetNFC(nfcStatus, WriteRefusedMsg, "error", Ev("write_refused", i))
               /\ writes' = [writes EXCEPT ![i] = [w EXCEPT !.pc = "refused"]]
               /\ UNCHANGED hw
        ELSE /\ SetNFC([nfcStatus EXCEPT !.writing = TRUE],
                       <<"Hold your device close to a writable NFC tag...">>, "info",
                       Ev("write_hw", i))
             /\ writes' = [writes EXCEPT ![i] = [w EXCEPT !.pc = "hw"]]
             /\ hw' = Append(hw, [by |-> i, message |-> NdefMessage(dataItem)])
  /\ UNCHANGED <<mount, dataItems, selectedDataItem, reads, tagEvents>>
  /\ NfcFrame

\* ndef.write resolves
WriteResolves(i) ==
  /\ i \in DOMAIN writes
  /\ writes[i].pc = "hw"
  /\ writes' = [writes EXCEPT ![i].pc = "written"]
  /\ SetNFC([nfcStatus EXCEPT !.writing = FALSE, !.lastWrite = Now],
            <<"[check] NFC Write Successful!\n">> \o Tpl(writes[i].item.name)
              \o <<" written to NFC tag.\nLink: ">> \o Tpl(writes[i].item.nfcLink),
            "success", Ev("write_done", i))
  /\ UNCHANGED <<mount, dataItems, selectedDataItem, reads, hw, tagEvents>>
  /\ NfcFrame

\* ndef.write rejects: the catch block
WriteErrors == {"AbortError", "NotSupportedError", "NetworkError"}

\* the message of the catch block with one text for every error
WriteFailureMessage_generic(name, text) == <<"[cross] NFC Write Failed: ">> \o text

\* the message the catch block of writeNFC sets for an error of that name
\* and error.message
WriteFailureMessage(name, text) ==
  IF name = "AbortError" THEN <<"[cross] Write operation was cancelled">>
  ELSE IF name = "NotSupportedError" THEN <<"[cross] This NFC tag is not writable">>
  ELSE <<"[cross] NFC Write Failed: ">> \o text

WriteRejects(i, name) ==
  /\ i \in DOMAIN writes
  /\ writes[i].pc = "hw"
  /\ writes' = [writes EXCEPT ![i].pc = "failed", ![i].error = name]
  /\ SetNFC([nfcStatus EXCEPT !.writing = FALSE],
            WriteFailureMessage(name, ErrorMessage(name)), "error", Ev("write_failed", i))
  /\ UNCHANGED <<mount, dataItems, selectedDataItem, reads, hw, tagEvents>>
  /\ NfcFrame

\* the backends the NFC tab is opened on: nothing stored, or one item of
\* the signed-in user with its link turned off or on
AllOk == [userSel |-> TRUE, auth |-> "ok", userIns |-> TRUE, upload |-> "ok", insert |-> TRUE]
Created(m, org) ==
  LET p == [NoFields EXCEPT !.userId = U1, !.deviceId = <<"web">>, !.type = <<"photo">>,
                            !.name = <<"A">>]
  IN IF m = "svc" THEN addDataItem_svc(org, EmptyBackend, p, NoFile, AllOk).db
     ELSE createDataItem_p003(org, EmptyBackend, p, AllOk).db
Toggled(m, b, st) ==
  IF m = "svc" THEN updateLinkStatus_svc(b, <<"1">>, st, TRUE).db
  ELSE updateLinkStatus_p003(b, <<"1">>, st, TRUE).db
Backends(m, org) == {EmptyBackend} \cup { Toggled(m, Created(m, org), st) : st \in BOOLEAN }

\* getDataItem of part_001 is that of part_003, so the controller is run
\* with dataService.ts and with part_003
InitNFCSpec ==
  /\ impl \in {"svc", "p003"}
  /\ origin = <<"https:", "/", "/", "zapp.app">>
  /\ db \in Backends(impl, origin)
  /\ nOps = 0
  /\ last = NoCall
  /\ prev = NoPrev
  /\ made = <<>>
  /\ ndefInWindow \in BOOLEAN
  /\ InitNFC

NextNFC ==
  \/ \E ok \in BOOLEAN : LoadDataItems(ok)
  \/ CheckNFCSupport
  \/ \E outcome \in ScanOutcomes : CheckScan(outcome)
  \/ \E v \in {Empty, <<"1">>} : SelectDataItem(v)
  \/ ReadNFC
  \/ \E i \in 1..MaxCalls : ReadScanOpens(i)
  \/ \E i \in 1..MaxCalls, name \in {"NotAllowedError"} : ReadScanFails(i, name)
  \/ \E tag \in TagInputs : TagRead(tag)
  \/ \E i \in 1..MaxCalls : ReadTimeout(i)
  \/ StopNFC
  \/ WriteNFC
  \/ \E i \in 1..MaxCalls, ok \in BOOLEAN : WriteLookup(i, ok)
  \/ \E i \in 1..MaxCalls : WriteResolves(i)
  \/ \E i \in 1..MaxCalls, name \in WriteErrors : WriteRejects(i, name)

SpecNFC == InitNFCSpec /\ [][NextNFC]_vars

\* -------------------------------- src/src/components/NFCViewer.tsx
\* how the backend client settles the select of getDataItem: with the
\* answer of the backend, with an error in the answer, or by throwing
GetOutcomes == {"data", "error", "throw"}

\* getDataItem(id) of part_003 and part_001: the whole body is in a try
\* whose catch returns null
getDataItem_p003_settled(org, b, id, how) ==
  IF how = "throw" /\ ~parseInt(id).nan
    THEN Out(ResNull, b, <<"photo_metadata.select">>)
    ELSE getDataItem_p003(org, b, id, how = "data")

\* getDataItem(id) of dataService.ts: the await is not in a try
getDataItem_svc_settled(org, b, id, how) ==
  IF how = "throw"
    THEN Out(ResThrow("client"), b, <<"photo_metadata.select">>)
    ELSE getDataItem_svc(org, b, id, how = "data")

\* the ids the route /nfc/:type/:id hands to the Viewer
RouteIds == {Undef, <<"1">>, <<"2">>, <<"x">>}

\* loadDataItem of the effect on [id]
LoadDataItem(id, how) ==
  IF ~Truthy(id)
    THEN /\ viewer' = [viewer EXCEPT !.error = <<"Invalid NFC link">>, !.loading = FALSE]
         /\ how = "data"
         /\ nOps < MaxOps
         /\ nOps' = nOps + 1
         /\ last' = Call("loadDataItem", id, NoFields, NoFile, FALSE, FALSE, Out(ResVoid, db, <<>>), db)
         /\ prev' = Remember(last)
         /\ UNCHANGED <<impl, origin, db, made, linkStatus, toggles, toast, user, managerItems,
                        deletes, modal, submitted>>
         /\ UNCHANGED nfcVars
    ELSE LET out == IF impl = "svc" THEN getDataItem_svc_settled(origin, db, id, how)
                    ELSE getDataItem_p003_settled(origin, db, id, how)
         IN /\ nOps < MaxOps
            /\ nOps' = nOps + 1
            /\ db' = out.db
            /\ last' = Call("loadDataItem", id, NoFields, NoFile, FALSE, how = "data", out, db)
            /\ prev' = Remember(last)
            /\ viewer' =
                 [loading |-> FALSE,
                  error |-> IF out.res.kind = "throw" THEN <<"Error loading data">>
                            ELSE IF out.res.kind = "null"
                              THEN <<"Data not found or no longer available">>
                            ELSE viewer.error,
                  dataItem |-> IF out.res.kind = "item" THEN out.res.item ELSE viewer.dataItem]
            /\ UNCHANGED <<impl, origin, made, linkStatus, toggles, toast, user, managerItems,
                           deletes, modal, submitted>>
            /\ UNCHANGED nfcVars

\* what the Viewer renders
Rendered(v) ==
  IF v.loading THEN "loading"
  ELSE IF Truthy(v.error) \/ v.dataItem = NoItem THEN "not found"
  ELSE "item"

NextView ==
  \/ \E p \in LinkCreateInputs, o \in LinkCreateOutcomes : Create(p, NoFile, o)
  \/ \E id \in RouteIds, how \in GetOutcomes : LoadDataItem(id, how)
  \/ \E id \in {<<"1">>, <<"2">>}, ok \in BOOLEAN : Delete(id, ok)

SpecView == Init /\ [][NextView]_vars

\* ------------------------------ src/src/components/DataManager.tsx
\* onToggleLinkStatus invocations the model follows
MaxToggles == 2

\* item.isPublic ?? true
PublicOrTrue(it) == IF it.isPublic = "undefined" THEN TRUE ELSE it.isPublic = "true"

\* the effect on [user]: the items of the user are loaded and the status
\* map is rebuilt from them; a failure shows a toast and leaves the map
ManagerLoad(ok, order) ==
  /\ toggles = <<>>
  /\ deletes = <<>>
  /\ modal.mode = "none"
  /\ user # Null
  /\ order \in Orders(OwnedRows(db, user))
  /\ impl # "svc" => UploadedDesc(db, order)
  /\ LET out == IF impl = "svc" THEN getDataItems_svc(origin, db, user, ok, order)
                ELSE getDataItems_p003(origin, db, user, ok, order)
     IN IF out.res.kind = "throw"
          THEN /\ toast' = [type |-> "error", title |-> <<"Loading Error">>]
               /\ UNCHANGED <<linkStatus, managerItems>>
          ELSE /\ linkStatus' = [id \in { out.res.items[i].id : i \in DOMAIN out.res.items } |->
                                  LET i == CHOOSE k \in DOMAIN out.res.items : out.res.items[k].id = id
                                  IN PublicOrTrue(out.res.items[i])]
               /\ managerItems' = out.res.items
               /\ UNCHANGED toast
  /\ UNCHANGED <<impl, origin, db, nOps, last, prev, made, viewer, toggles, user, deletes, modal,
                 submitted>>
  /\ UNCHANGED nfcVars

\* one invocation of onToggleLinkStatus: its arguments, the originalStatus
\* of its closure, the status of the item as it started, and whether
\* another invocation for the same item was in flight during it
Toggle(id, newStatus, originalStatus) ==
  [id |-> id, newStatus |-> newStatus, originalStatus |-> originalStatus,
   was |-> originalStatus, pc |-> "await", shared |-> FALSE]

\* the catch of onToggleLinkStatus: setLinkStatus(prev => ({...prev, [id]: originalStatus}))
Restored_to_requested(ls, t) == [ls EXCEPT ![t.id] = t.newStatus]
Restored(ls, t) == [ls EXCEPT ![t.id] = t.originalStatus]

\* onToggleLinkStatus(item.id, !isActive), up to its await
ToggleStart(id) ==
  /\ Len(toggles) < MaxToggles
  /\ id \in DOMAIN linkStatus
  /\ LET inFlight == \E j \in DOMAIN toggles : toggles[j].id = id /\ toggles[j].pc = "await"
         t == [Toggle(id, ~linkStatus[id], linkStatus[id]) EXCEPT !.shared = inFlight]
     IN /\ toggles' = [j \in DOMAIN toggles |->
                         IF toggles[j].id = id /\ toggles[j].pc = "await"
                           THEN [toggles[j] EXCEPT !.shared = TRUE] ELSE toggles[j]] \o <<t>>
        /\ linkStatus' = [linkStatus EXCEPT ![id] = t.newStatus]
  /\ UNCHANGED <<impl, origin, db, nOps, last, prev, made, viewer, toast, user, managerItems,
                 deletes, modal, submitted>>
  /\ UNCHANGED nfcVars

\* updateLinkStatus settles: a toast either way, and the catch restores
\* the status of the closure
ToggleSettles(i, ok) ==
  /\ i \in DOMAIN toggles
  /\ toggles[i].pc = "await"
  /\ LET t == toggles[i]
         out == IF impl = "svc" THEN updateLinkStatus_svc(db, t.id, t.newStatus, ok)
                ELSE updateLinkStatus_p003(db, t.id, t.newStatus, ok)
     IN /\ db' = out.db
        /\ IF out.res.kind = "throw"
             THEN /\ toast' = [type |-> "error", title |-> <<"Update Failed">>]
                  /\ linkStatus' = Restored(linkStatus, t)
                  /\ toggles' = [toggles EXCEPT ![i].pc = "failed"]
             ELSE /\ toast' = [type |-> "success", title |-> <<"Link Status Updated">>]
                  /\ UNCHANGED linkStatus
                  /\ toggles' = [toggles EXCEPT ![i].pc = "done"]
  /\ UNCHANGED <<impl, origin, nOps, last, prev, made, viewer, user, managerItems, deletes,
                 modal, submitted>>
  /\ UNCHANGED nfcVars

\* the backends the manager is opened on: one or two items of the user, the
\* link of the second switched off or not
CreatedTwo(m, org) ==
  LET p == [NoFields EXCEPT !.userId = U1, !.deviceId = <<"web">>, !.type = <<"document">>,
                            !.name = <<"B">>]
  IN IF m = "svc" THEN addDataItem_svc(org, Created(m, org), p, NoFile, AllOk).db
     ELSE createDataItem_p003(org, Created(m, org), p, AllOk).db
ManagerBackends(m, org) ==
  { Created(m, org), CreatedTwo(m, org),
    IF m = "svc" THEN updateLinkStatus_svc(CreatedTwo(m, org), <<"2">>, FALSE, TRUE).db
    ELSE updateLinkStatus_p003(CreatedTwo(m, org), <<"2">>, FALSE, TRUE).db }

InitToggle ==
  /\ impl \in {"svc", "p003"}
  /\ origin = <<"https:", "/", "/", "zapp.app">>
  /\ db \in ManagerBackends(impl, origin)
  /\ nOps = 0
  /\ last = NoCall
  /\ prev = NoPrev
  /\ made = <<>>
  /\ ndefInWindow = TRUE
  /\ InitNFC

NextToggle ==
  \/ \E ok \in BOOLEAN, order \in Orders(OwnedRows(db, U1)) : ManagerLoad(ok, order)
  \/ \E id \in {<<"1">>, <<"2">>} : ToggleStart(id)
  \/ \E i \in 1..MaxToggles, ok \in BOOLEAN : ToggleSettles(i, ok)

SpecToggle == InitToggle /\ [][NextToggle]_vars

\* deleteItem invocations the model follows
MaxDeletes == 2

\* the ids of the items the manager lists
ListedIds == { managerItems[k].id : k \in DOMAIN managerItems }

\* prev.filter((it) => it.id !== id)
WithoutItem(items, id) == SelectSeq(items, LAMBDA it : it.id # id)

\* if (!confirm(...)) return, the answer never asked for
Confirmed_always(answer) == TRUE

\* if (!confirm('Are you sure you want to delete this item?')) return
Confirmed(answer) == answer

\* the delete button's onClick: deleteItem up to its await; answer is what
\* the user answers to confirm()
DeleteAsk(id, answer) ==
  /\ Len(deletes) < MaxDeletes
  /\ id \in ListedIds
  /\ deletes' = Append(deletes, [id |-> id, answer |-> answer,
                                 pc |-> IF Confirmed(answer) THEN "await" ELSE "declined",
                                 returned |-> "none", toast |-> "none"])
  /\ UNCHANGED <<impl, origin, db, nOps, last, prev, made, viewer, linkStatus, toggles, toast,
                 user, managerItems, modal, submitted>>
  /\ UNCHANGED nfcVars

\* deleteDataItem settles: the item leaves the list when it returned true,
\* and the success toast follows the if
DeleteSettles(i, ok) ==
  /\ i \in DOMAIN deletes
  /\ deletes[i].pc = "await"
  /\ LET d == deletes[i]
         out == IF impl = "svc" THEN deleteDataItem_svc(db, d.id, ok)
                ELSE deleteDataItem_p003(db, d.id, ok)
     IN /\ db' = out.db
        /\ IF out.res.kind = "throw"
             THEN /\ toast' = [type |-> "error", title |-> <<"Delete Failed">>]
                  /\ deletes' = [deletes EXCEPT ![i].pc = "failed", ![i].toast = "error"]
                  /\ UNCHANGED managerItems
             ELSE /\ toast' = [type |-> "success", title |-> <<"Item Deleted">>]
                  /\ deletes' = [deletes EXCEPT ![i].pc = "done", ![i].toast = "success",
                                                ![i].returned = JsBool(out.res.ok)]
                  /\ managerItems' = IF out.res.ok THEN WithoutItem(managerItems, d.id)
                                     ELSE managerItems
  /\ UNCHANGED <<impl, origin, nOps, last, prev, made, viewer, linkStatus, toggles, user, modal,
                 submitted>>
  /\ UNCHANGED nfcVars

NextDelete ==
  \/ \E ok \in BOOLEAN, order \in Orders(OwnedRows(db, U1)) : ManagerLoad(ok, order)
  \/ \E id \in {<<"1">>, <<"2">>}, answer \in BOOLEAN : DeleteAsk(id, answer)
  \/ \E i \in 1..MaxDeletes, ok \in BOOLEAN : DeleteSettles(i, ok)

SpecDelete == InitToggle /\ [][NextDelete]_vars

\* ------------------------------------------------------------ EditDataModal
\* String.prototype.trim on a string of atoms
RECURSIVE trimStart(_)
trimStart(s) == IF s # <<>> /\ Head(s) = " " THEN trimStart(Tail(s)) ELSE s
RECURSIVE trimEnd(_)
trimEnd(s) == IF s # <<>> /\ s[Len(s)] = " " THEN trimEnd(SubSeq(s, 1, Len(s) - 1)) ELSE s
trim(s) == trimEnd(trimStart(s))

\* Array.prototype.includes
includes(arr, v) == \E i \in DOMAIN arr : arr[i] = v

\* submissions of the modal the model follows
MaxSubmits == 1

\* 10 * 1024 * 1024, the limit of handleFileChange
MaxFileSize == 10 * 1024 * 1024

\* the files the user picks from: a small PNG, a GIF, and a PNG over the limit
FileGif == MkFile(<<"h", ".", "gif">>, <<"image/gif">>, 6)
FileBig == MkFile(<<"b", ".", "png">>, <<"image/png">>, MaxFileSize + 1)
PickedFiles == {FilePng, FileGif, FileBig}

\* what the user types into the name field, and the types they choose from
TypedNames == {Empty, <<" ">>, <<"B">>}
PickedTypes == {<<"id_card">>, <<"photo">>, <<"document">>}

\* the dataItem prop of the add modal
AddDataItem(u) ==
  [NoItem EXCEPT !.id = Empty, !.name = <<"Untitled">>, !.type = DATA_TYPES[1].id,
                 !.userId = Or(u, Empty), !.deviceId = <<"web">>, !.nfcLink = Empty]

\* the form as reset() and setSelectedFile(null) leave it for a dataItem
FormFor(mode, dataItem) ==
  [mode |-> mode, item |-> dataItem,
   name |-> IF dataItem.name = <<"Untitled">> THEN Empty ELSE dataItem.name,
   description |-> Or(dataItem.description, Empty),
   type |-> dataItem.type,
   selectedFile |-> NoFile]

\* the "Add" button: setShowAddModal(true)
OpenAdd ==
  /\ modal.mode = "none"
  /\ user # Null
  /\ nOps < MaxSubmits
  /\ modal' = FormFor("add", AddDataItem(user))
  /\ UNCHANGED <<impl, origin, db, nOps, last, prev, made, viewer, linkStatus, toggles, toast,
                 user, managerItems, deletes, submitted>>
  /\ UNCHANGED nfcVars

\* onEdit of a listed item: setEditingItem(item)
OpenEdit(k) ==
  /\ modal.mode = "none"
  /\ user # Null
  /\ nOps < MaxSubmits
  /\ k \in DOMAIN managerItems
  /\ modal' = FormFor("edit", managerItems[k])
  /\ UNCHANGED <<impl, origin, db, nOps, last, prev, made, viewer, linkStatus, toggles, toast,
                 user, managerItems, deletes, submitted>>
  /\ UNCHANGED nfcVars

\* onClose: setShowAddModal(false) or setEditingItem(null)
CloseModal ==
  /\ modal.mode # "none"
  /\ modal' = NoModal
  /\ UNCHANGED <<impl, origin, db, nOps, last, prev, made, viewer, linkStatus, toggles, toast,
                 user, managerItems, deletes, submitted>>
  /\ UNCHANGED nfcVars

\* DataManager renders again while the add modal is open: its dataItem is
\* a new object, and the effect on [isOpen, dataItem, reset] resets the form
ManagerRenders ==
  /\ modal.mode = "add"
  /\ modal # FormFor("add", AddDataItem(user))
  /\ modal' = FormFor("add", AddDataItem(user))
  /\ UNCHANGED <<impl, origin, db, nOps, last, prev, made, viewer, linkStatus, toggles, toast,
                 user, managerItems, deletes, submitted>>
  /\ UNCHANGED nfcVars

\* typing into the name field
SetName(n) ==
  /\ modal.mode # "none"
  /\ modal.name # n
  /\ modal' = [modal EXCEPT !.name = n]
  /\ UNCHANGED <<impl, origin, db, nOps, last, prev, made, viewer, linkStatus, toggles, toast,
                 user, managerItems, deletes, submitted>>
  /\ UNCHANGED nfcVars

\* choosing a data type radio: the selected file stays
SetType(t) ==
  /\ modal.mode # "none"
  /\ modal.type # t
  /\ modal' = [modal EXCEPT !.type = t]
  /\ UNCHANGED <<impl, origin, db, nOps, last, prev, made, viewer, linkStatus, toggles, toast,
                 user, managerItems, deletes, submitted>>
  /\ UNCHANGED nfcVars

\* handleFileChange
Accepted_any(type, file) == TRUE
Accepted(type, file) == includes(getDataTypeConfig(type).acceptedFileTypes, file.type)
handleFileChange(file) ==
  /\ modal.mode # "none"
  /\ file # NoFile
  /\ IF file.size > MaxFileSize
       THEN /\ toast' = [type |-> "error", title |-> <<"File Too Large">>]
            /\ UNCHANGED modal
       ELSE IF ~Accepted(modal.type, file)
       THEN /\ toast' = [type |-> "error", title |-> <<"Invalid File Type">>]
            /\ UNCHANGED modal
       ELSE /\ modal' = [modal EXCEPT !.selectedFile = file]
            /\ UNCHANGED toast
  /\ UNCHANGED <<impl, origin, db, nOps, last, prev, made, viewer, linkStatus, toggles,
                 user, managerItems, deletes, submitted>>
  /\ UNCHANGED nfcVars

\* signing out: App renders AuthScreen instead of the Dashboard, and the
\* manager with its modal is unmounted
SignOut ==
  /\ user # Null
  /\ toggles = <<>>
  /\ deletes = <<>>
  /\ user' = Null
  /\ modal' = NoModal
  /\ managerItems' = <<>>
  /\ linkStatus' = <<>>
  /\ UNCHANGED <<impl, origin, db, nOps, last, prev, made, viewer, toggles, toast, deletes,
                 submitted>>
  /\ UNCHANGED nfcVars

\* updatedData of onSubmit
UpdatedData(m) ==
  [NoFields EXCEPT !.userId = m.item.userId,
                   !.name = Or(trim(m.name), Undef),
                   !.description = Or(trim(m.description), Undef),
                   !.type = m.type]

\* the three backfills of the add modal's onSave
NameOrUntitled_same(name) == name
NameOrUntitled(name) == IF ~Truthy(name) THEN <<"Untitled">> ELSE name
Backfilled(data, u) ==
  [data EXCEPT !.name = NameOrUntitled(data.name),
               !.type = IF ~Truthy(data.type) THEN DATA_TYPES[1].id ELSE data.type,
               !.userId = IF ~Truthy(data.userId) THEN Or(u, Empty) ELSE data.userId]

\* addDataItem(payload) of part_003: the wrapper around createDataItem
addDataItem_p003(org, b, payload, o) ==
  createDataItem_p003(org, b, [payload EXCEPT !.deviceId = Or(payload.deviceId, <<"web">>)], o)

ModalCreateOutcomes == {AllOk, [AllOk EXCEPT !.insert = FALSE]}
ModalUpdateOutcomes ==
  { [upload |-> "ok", update |-> TRUE, get |-> TRUE],
    [upload |-> "ok", update |-> FALSE, get |-> TRUE] }

\* the add modal's submit: handleSubmit validates the name field, onSubmit
\* builds updatedData and calls onSave(updatedData, selectedFile), and
\* onSave calls dataService.addDataItem(data)
SubmitAdd(o) ==
  /\ modal.mode = "add"
  /\ modal.name # Empty
  /\ nOps < MaxSubmits
  /\ db.nextId <= MaxRows
  /\ LET data == Backfilled(UpdatedData(modal), user)
         out == IF impl = "svc" THEN addDataItem_svc(origin, db, data, NoFile, o)
                ELSE addDataItem_p003(origin, db, data, o)
     IN /\ db' = out.db
        /\ last' = Call("create", Undef, data, NoFile, FALSE, o.insert, out, db)
        /\ made' = IF out.res.kind = "item"
                     THEN [k \in DOMAIN made \cup {out.res.item.id} |->
                             IF k = out.res.item.id THEN [args |-> data, file |-> NoFile]
                             ELSE made[k]]
                     ELSE made
        /\ managerItems' = IF out.res.kind = "item" THEN <<out.res.item>> \o managerItems
                           ELSE managerItems
        /\ submitted' = [mode |-> "add", typed |-> modal.name, data |-> data,
                         file |-> modal.selectedFile]
  /\ prev' = Remember(last)
  /\ nOps' = nOps + 1
  /\ toast' = [type |-> "success", title |-> <<"Data Updated">>]
  /\ modal' = NoModal
  /\ UNCHANGED <<impl, origin, viewer, linkStatus, toggles, user, deletes>>
  /\ UNCHANGED nfcVars

\* the edit modal's submit: onSave is handleEditSave, which calls
\* dataService.updateDataItem(editingItem.id, updatedData, newFile)
SubmitEdit(o) ==
  /\ modal.mode = "edit"
  /\ modal.name # Empty
  /\ nOps < MaxSubmits
  /\ LET data == UpdatedData(modal)
         id == modal.item.id
         out == IF impl = "svc"
                  THEN updateDataItemWithFile_svc(origin, db, id, data, modal.selectedFile, o)
                  ELSE updateDataItem_p003(origin, db, id, data, modal.selectedFile, o)
     IN /\ db' = out.db
        /\ last' = Call("update", id, data, modal.selectedFile, FALSE,
                        o.update /\ o.get /\ (IF modal.selectedFile = NoFile THEN TRUE
                                                ELSE o.upload = "ok"),
                        out, db)
        /\ managerItems' = IF out.res.kind = "item"
                             THEN [k \in DOMAIN managerItems |->
                                     IF managerItems[k].id = id THEN out.res.item
                                     ELSE managerItems[k]]
                             ELSE managerItems
        /\ submitted' = [mode |-> "edit", typed |-> modal.name, data |-> data,
                         file |-> modal.selectedFile]
  /\ prev' = Remember(last)
  /\ nOps' = nOps + 1
  /\ toast' = [type |-> "success", title |-> <<"Data Updated">>]
  /\ modal' = NoModal
  /\ UNCHANGED <<impl, origin, made, viewer, linkStatus, toggles, user, deletes>>
  /\ UNCHANGED nfcVars

NextModal ==
  \/ \E ok \in BOOLEAN, order \in Orders(OwnedRows(db, U1)) : ManagerLoad(ok, order)
  \/ OpenAdd
  \/ \E k \in 1..MaxRows : OpenEdit(k)
  \/ CloseModal
  \/ ManagerRenders
  \/ \E n \in TypedNames : SetName(n)
  \/ \E t \in PickedTypes : SetType(t)
  \/ \E f \in PickedFiles : handleFileChange(f)
  \/ SignOut
  \/ \E o \in ModalCreateOutcomes : SubmitAdd(o)
  \/ \E o \in ModalUpdateOutcomes : SubmitEdit(o)

\* the manager opened on a backend holding one item of the user
InitModal ==
  /\ impl \in {"svc", "p003"}
  /\ origin = <<"https:", "/", "/", "zapp.app">>
  /\ db = Created(impl, origin)
  /\ nOps = 0
  /\ last = NoCall
  /\ prev = NoPrev
  /\ made = <<>>
  /\ ndefInWindow = TRUE
  /\ InitNFC

SpecModal == InitModal /\ [][NextModal]_vars

\* create followed by get, nothing else touching the rows
NextCreateGet ==
  \/ \E p \in LinkCreateInputs, f \in {NoFile, FilePng}, o \in LinkCreateOutcomes : Create(p, f, o)
  \/ \E id \in {<<"1">>, <<"2">>}, ok \in BOOLEAN : Get(id, ok)

SpecCreateGet == Init /\ [][NextCreateGet]_vars

\* ------------------------------------------------------------ claims
\* C1: a read whose scan session opened, on which no tag arrived and no
\* stop was issued, has reading = false and the message "Read timeout. No
\* NFC tag detected." once its 30 s timer has fired.
C1_ReadTimeoutClearsReading ==
  \A i \in DOMAIN reads :
    (nfcEv = Ev("read_timeout", i) /\ tagEvents = 0 /\ ~reads[i].stopped)
      => (~nfcStatus.reading /\ message = ReadTimeoutMsg)

\* a write invocation whose lookup returned an item
Found(w) == w.pc \notin {"lookup", "notfound"}
\* the hardware writes an invocation issued
HwCalls(i) == { k \in DOMAIN hw : hw[k].by = i }

\* C2 as stated: a write whose looked-up item has isPublic false or absent
\* never invokes the NFC write primitive, never sets writing, and shows
\* exactly "Cannot write a link that is turned off."
C2_RefusedExactMessage ==
  \A i \in DOMAIN writes :
    (Found(writes[i]) /\ writes[i].item.isPublic # "true")
      => /\ HwCalls(i) = {}
         /\ writes[i].pc = "refused"
         /\ nfcEv = Ev("write_refused", i)
              => message = <<"Cannot write a link that is turned off.">>

\* C2, amended: a write whose looked-up item has isPublic false or absent
\* never invokes the NFC write primitive and never sets writing (writing is
\* true only while a write of an enabled item is at the hardware), and the
\* message it shows is the refusal text followed by the advice to enable
\* the link in the Data Manager, with the error type.
C2_WriteRefusedWhenOff ==
  /\ \A i \in DOMAIN writes :
       (Found(writes[i]) /\ writes[i].item.isPublic # "true")
         => /\ HwCalls(i) = {}
            /\ writes[i].pc = "refused"
            /\ nfcEv = Ev("write_refused", i)
                 => (message = WriteRefusedMsg /\ messageType = "error")
  /\ nfcStatus.writing
       => \E i \in DOMAIN writes : writes[i].pc = "hw" /\ writes[i].item.isPublic = "true"

\* a write of an item whose link is off has just been refused
C2_Witness ==
  \E i \in DOMAIN writes :
    /\ nfcEv = Ev("write_refused", i)
    /\ writes[i].item.isPublic = "false"
    /\ writes[i].stored = "false"

\* C8: a write of a selected item, with NFC supported, whose lookup finds
\* the item and whose stored sharing flag is enabled, is not refused: it
\* hands the hardware exactly two records, a text record "ZButton <display
\* name>: <item name>" and a url record with the item's sharing link, and a
\* successful write leaves writing false and lastWrite set.
C8_EnabledItemIsWritten ==
  \A i \in DOMAIN writes :
    (Found(writes[i]) /\ writes[i].stored = "true")
      => /\ writes[i].pc \in {"hw", "written", "failed"}
         /\ \E k \in HwCalls(i) :
              /\ Len(hw[k].message) = 2
              /\ hw[k].message[1] =
                   [recordType |-> "text",
                    data |-> <<"ZButton ">> \o getDataTypeConfig(writes[i].item.type).name
                             \o <<": ">> \o writes[i].item.name]
              /\ hw[k].message[2] = [recordType |-> "url", data |-> writes[i].item.nfcLink]
         /\ nfcEv = Ev("write_done", i) => (~nfcStatus.writing /\ nfcStatus.lastWrite # 0)

\* the row an id string addresses in the running implementation
Target(id) == IF impl = "svc" THEN pgInt(id) ELSE parseInt(id)

\* an id string that is a decimal integer
IsDecimal(id) == id # <<>> /\ \A i \in 1..Len(id) : IsDigit(id[i])

\* name, classification and attachment of a stored row
Content(r) ==
  [name |-> r.file_name, tags |-> r.tags, file_url |-> r.file_url,
   mime_type |-> r.mime_type, file_size |-> r.file_size]

\* C3: an update that supplies only description leaves the name, the
\* classification and the attachment fields of every stored item as they
\* were before the call.
C3_DescriptionOnlyKeepsContent ==
  (last.op = "update" /\ last.args = OnlyDescription /\ last.file = NoFile)
    => \A n \in DOMAIN last.pre.rows :
         n \in DOMAIN db.rows /\ Content(db.rows[n]) = Content(last.pre.rows[n])

ValidationErrors == {"Invalid userId", "Missing required fields: userId, type, or name"}

\* C4: a create call whose owner id is missing (undefined, empty or not a
\* string) fails with a validation error before any backend call: no users
\* insert, no upload, no row insert, and the backend is as it was.
C4_MissingOwnerNoWrite ==
  (last.op = "create" /\ (~Truthy(last.args.userId) \/ ~IsString(last.args.userId)))
    => /\ last.res.kind = "throw"
       /\ last.res.err \in ValidationErrors
       /\ last.calls = <<>>
       /\ db = last.pre

\* C5: for an id that is not a decimal integer, get and update give
\* not-found (no item, no exception) and delete gives false.
C5_MalformedIdNotFound ==
  ~IsDecimal(last.id)
    => /\ last.op \in {"get", "update"} => last.res.kind = "null"
       /\ last.op = "delete" => (last.res.kind = "bool" /\ ~last.res.ok)

\* C6: resolveByLink on the sharing link of a stored item, the backend
\* answering the lookup, gives the item with the same id.
C6_LinkRoundTrip ==
  (last.op = "resolveByLink" /\ last.ok)
    => (last.res.kind = "item" /\ last.res.item.id = last.id)

\* C7: an item returned by create, get or update carries a classification,
\* and its link is origin/nfc/<that classification>/<its id>.
C7_LinkShape ==
  (last.op \in {"create", "get", "update"} /\ last.res.kind = "item")
    => /\ last.res.item.type \notin {Undef, Null}
       /\ last.res.item.nfcLink =
            origin \o <<"/", "nfc", "/">> \o last.res.item.type \o <<"/">> \o last.res.item.id

\* a stored row without its last-update instant
Stored(r) == [r EXCEPT !.updated_at = 0]

\* the last two calls switched the link of one stored item off and on again,
\* both succeeding, the link having been on before
ToggledOffOn ==
  /\ last.op = "updateLinkStatus" /\ last.res.kind # "throw" /\ last.st
  /\ prev.op = "updateLinkStatus" /\ ~prev.st /\ prev.id = last.id
  /\ ~Target(last.id).nan
  /\ Target(last.id).n \in DOMAIN prev.db.rows
  /\ prev.db.rows[Target(last.id).n].is_public

\* C9: setLinkEnabled true -> false -> true gives the stored item back as
\* it was: the sharing flag on, name, description, classification and every
\* attachment field unchanged.
C9_ToggleRoundTrip ==
  ToggledOffOn
    => /\ Target(last.id).n \in DOMAIN db.rows
       /\ db.rows[Target(last.id).n].is_public
       /\ Stored(db.rows[Target(last.id).n]) = Stored(prev.db.rows[Target(last.id).n])

\* C9 witness: the round trip was made on an item that has an attachment
C9_Witness ==
  /\ ToggledOffOn
  /\ db.rows[Target(last.id).n].file_url # Empty
  /\ ~last.pre.rows[Target(last.id).n].is_public

\* C10: delete never raises -- it gives a boolean for a nonexistent id, a
\* malformed id and a backend error -- and leaves every other item as it was.
C10_DeleteNeverRaises ==
  last.op = "delete"
    => /\ last.res.kind = "bool"
       /\ \A n \in DOMAIN last.pre.rows :
            (Target(last.id).nan \/ n # Target(last.id).n)
              => (n \in DOMAIN db.rows /\ db.rows[n] = last.pre.rows[n])
\* C11: an update that carries a new file whose upload succeeds stores the
\* new file as the attachment -- the new public URL, the new file's name,
\* size and MIME type -- and turns the sharing flag on, whatever other fields
\* are supplied, a name included.
C11_NewFileReplacesAttachment ==
  (/\ last.op = "update" /\ last.file # NoFile /\ last.ok
   /\ last.calls # <<>> /\ last.calls[1] = "storage.upload"
   /\ ~Target(last.id).nan /\ Target(last.id).n \in DOMAIN last.pre.rows)
    => LET r == db.rows[Target(last.id).n]
       IN /\ r.file_url = <<"url#">> \o ToStr(db.uploads)
          /\ r.file_name = last.file.name
          /\ r.file_size = last.file.size
          /\ r.mime_type = last.file.type
          /\ r.is_public
\* the items a data-layer call returned
Returned(l) ==
  IF l.res.kind = "item" THEN {l.res.item}
  ELSE IF l.res.kind = "list" THEN { l.res.items[i] : i \in DOMAIN l.res.items }
  ELSE {}

\* C12: every item returned by create, get, list or listByType has a
\* classification in {id_card, license, photo, document, other}; a row
\* without a classification tag is reported as "other".
C12_ClassificationInEnum ==
  last.op \in {"create", "get", "list", "listByType"}
    => \A it \in Returned(last) : it.type \in DataTypes
\* C15: list(ownerId) gives exactly the items of that owner, each once,
\* newest first by creation instant; when the backend fails it throws and
\* gives no sequence.
C15_ListOwnedNewestFirst ==
  last.op = "list"
    => IF last.ok
         THEN /\ last.res.kind = "list"
              /\ LET its == last.res.items
                 IN /\ { its[i].id : i \in DOMAIN its } = { ToStr(n) : n \in OwnedRows(db, last.id) }
                    /\ Len(its) = Cardinality(OwnedRows(db, last.id))
                    /\ \A i, j \in DOMAIN its : i < j => its[i].createdAt >= its[j].createdAt
         ELSE last.res.kind = "throw"
\* the upload of a create was tried and stored nothing
UploadFailed(l) ==
  /\ l.calls # <<>>
  /\ \E i \in DOMAIN l.calls : l.calls[i] = "storage.upload"
  /\ db.uploads = l.pre.uploads

\* C13: a create with a file whose upload to object storage fails, every
\* other backend call succeeding, still returns an item; the item's
\* fileData and the stored file reference are the payload's encoded bytes.
C13_UploadFailureFallsBack ==
  (last.op = "create" /\ UploadFailed(last) /\ last.ok)
    => /\ last.res.kind = "item"
       /\ last.res.item.fileData = last.args.fileData
       /\ db.rows[last.pre.nextId].file_url = last.args.fileData
\* C14: a create with a classification, a name, no file and a valid owner
\* that the backend accepts returns an item of that classification and
\* name, with fileData undefined and the link origin/nfc/<classification>/<id>
\* for the id the backend assigned.
C14_CreateWithoutFile ==
  (/\ last.op = "create" /\ last.file = NoFile /\ last.args.fileData = Undef
   /\ last.res.kind = "item")
    => LET it == last.res.item
           id == ToStr(last.pre.nextId)
       IN /\ last.pre.nextId \in DOMAIN db.rows
          /\ it.id = id
          /\ it.type = last.args.type
          /\ it.name = last.args.name
          /\ it.fileData = Undef
          /\ it.nfcLink # <<>>
          /\ it.nfcLink = origin \o <<"/", "nfc", "/">> \o last.args.type \o <<"/">> \o id
\* C16: for a well-formed id, whenever the backend has no such row, answers
\* with an error, or its client throws, getDataItem returns null without
\* throwing, and the Viewer then shows its not-found screen, loading cleared.
C16_LookupFailureIsNotFound ==
  (/\ last.op = "loadDataItem" /\ IsDecimal(last.id)
   /\ (~last.ok \/ Target(last.id).n \notin DOMAIN last.pre.rows))
    => /\ last.res.kind = "null"
       /\ ~viewer.loading
       /\ Rendered(viewer) = "not found"
\* the statuses of the items other than id
Others(ls, id) == [k \in DOMAIN ls \ {id} |-> ls[k]]

\* C17: a link toggle on an item with no other toggle in flight on that item
\* flips the local status at once; the status stays when the remote call
\* succeeds; when it fails the status is the one before the toggle and an
\* error toast is shown; no step of it changes the status of another item.
C17_ToggleStep ==
  \A i \in DOMAIN toggles' :
    LET t == toggles'[i]
    IN ~t.shared =>
         /\ (i \notin DOMAIN toggles)
              => /\ linkStatus'[t.id] = ~linkStatus[t.id]
                 /\ linkStatus'[t.id] = t.newStatus
                 /\ Others(linkStatus', t.id) = Others(linkStatus, t.id)
         /\ (i \in DOMAIN toggles /\ toggles[i].pc = "await" /\ t.pc = "done")
              => /\ linkStatus'[t.id] = t.newStatus
                 /\ linkStatus' = linkStatus
         /\ (i \in DOMAIN toggles /\ toggles[i].pc = "await" /\ t.pc = "failed")
              => /\ linkStatus'[t.id] = t.was
                 /\ toast'.type = "error"
                 /\ Others(linkStatus', t.id) = Others(linkStatus, t.id)
C17_OptimisticToggle == [][C17_ToggleStep]_vars
C17_Witness ==
  \E i \in DOMAIN toggles :
    /\ toggles[i].pc = "failed" /\ ~toggles[i].shared
    /\ linkStatus[toggles[i].id] = toggles[i].was
    /\ toast.type = "error"
    /\ \E k \in DOMAIN linkStatus : k # toggles[i].id
\* the causes of a write failure the messages tell apart
Cause(name) == IF name \in {"AbortError", "NotSupportedError"} THEN name ELSE "other"

\* C18: after ndef.scan() of a read rejects, reading is false and an error
\* message is set; after ndef.write of a write rejects, writing is false and
\* an error message is set that no failure of another cause (cancelled, tag
\* not writable, anything else) can set, whatever its error text.
C18_HardwareFailureCaught ==
  /\ nfcEv.ev = "read_failed"
       => /\ reads[nfcEv.i].pc = "failed"
          /\ ~nfcStatus.reading
          /\ messageType = "error"
          /\ message # <<>>
  /\ nfcEv.ev = "write_failed"
       => /\ writes[nfcEv.i].pc = "failed"
          /\ ~nfcStatus.writing
          /\ messageType = "error"
          /\ message # <<>>
          /\ \A n \in WriteErrors, k \in WriteErrors :
               Cause(n) # Cause(writes[nfcEv.i].error)
                 => message # WriteFailureMessage(n, ErrorMessage(k))
C18_Witness ==
  /\ nfcEv.ev = "write_failed"
  /\ writes[nfcEv.i].error = "AbortError"
  /\ \E j \in DOMAIN reads : reads[j].pc = "failed"
\* C19: checkNFCSupport ends with a message set and raises nothing. Once it
\* has run, supported is true exactly when NDEFReader is in window; available
\* is true only with supported true and the scan opened; the message of a
\* denied permission is not the message of another scan failure; available
\* implies supported in every state.
C19_CapabilityCheck ==
  /\ mount.check \in {"pending", "scan", "done"}
  /\ nfcStatus.available => (nfcStatus.supported /\ mount.scan = "ok")
  /\ nfcStatus.supported <=> (mount.check # "pending" /\ ndefInWindow)
  /\ (nfcEv.ev \in {"check", "check_scan"} /\ mount.check = "done") => message # <<>>
  /\ mount.scan = "ok" => nfcStatus.available
  /\ (nfcEv.ev = "check_scan" /\ mount.scan # "ok")
       => /\ messageType = "error"
          /\ \A n \in ScanOutcomes \ {"ok"} :
               (n = "NotAllowedError") # (mount.scan = "NotAllowedError")
                 => message # CheckFailureMessage(n)
C19_Witness ==
  /\ nfcEv.ev = "check_scan"
  /\ mount.scan = "NotAllowedError"
  /\ nfcStatus.supported /\ ~nfcStatus.available
\* C20: reading and writing are never both true, whatever the order of the
\* read and write requests and of the settling of their awaits.
C20_ReadWriteExclusive == ~(nfcStatus.reading /\ nfcStatus.writing)
\* C21: a tag delivered when every open scan session was stopped by stopNFC
\* changes neither nfcStatus (the flags, lastRead) nor the message.
C21_TagAfterStopStep ==
  (/\ tagEvents' = tagEvents + 1
   /\ \A i \in DOMAIN reads : reads[i].pc = "open" => reads[i].stopped)
    => UNCHANGED <<nfcStatus, message, messageType>>
C21_StoppedReadIgnoresTag == [][C21_TagAfterStopStep]_vars
\* C24: the timer of a read session firing after a tag was delivered to that
\* session changes neither nfcStatus nor the message, also when another read
\* session was started in between.
C24_LateTimeoutStep ==
  \A i \in DOMAIN reads :
    (reads[i].timer = "set" /\ reads'[i].timer = "fired" /\ reads[i].tagged)
      => UNCHANGED <<nfcStatus, message, messageType>>
C24_LateTimeoutChangesNothing == [][C24_LateTimeoutStep]_vars
C24_Witness ==
  \E i, j \in DOMAIN reads :
    /\ nfcEv = Ev("read_timeout", i)
    /\ reads[i].tagged
    /\ i < j
    /\ ~reads[j].tagged
    /\ reads[j].pc \in {"scan", "open"}
    /\ nfcStatus.reading
\* the toggles issued for an item
TogglesOn(id) == { i \in DOMAIN toggles : toggles[i].id = id }

\* C22: once every toggle issued for an item has resolved, the link status
\* the Data Manager holds for the item is the is_public column of its row.
C22_SettledStatusIsBackend ==
  \A id \in DOMAIN linkStatus :
    (/\ TogglesOn(id) # {}
     /\ \A i \in TogglesOn(id) : toggles[i].pc # "await"
     /\ ~parseInt(id).nan /\ parseInt(id).n \in DOMAIN db.rows)
      => linkStatus[id] = db.rows[parseInt(id).n].is_public
\* C23: after the load of the Data Manager, before any toggle, the status
\* held for each loaded item is the is_public column of its row: an item
\* whose column is false is held as disabled.
C23_LoadedStatusIsBackend ==
  toggles = <<>>
    => \A id \in DOMAIN linkStatus :
         parseInt(id).n \in DOMAIN db.rows
           => linkStatus[id] = db.rows[parseInt(id).n].is_public
\* C27: a delete whose deleteDataItem returned false shows no success
\* toast, and the item stays in the list of the manager.
C27_NoSuccessToastOnFalse ==
  \A i \in DOMAIN deletes :
    deletes[i].returned = "false"
      => /\ deletes[i].toast # "success"
         /\ (\A j \in DOMAIN deletes : deletes[j].id = deletes[i].id => deletes[j].returned # "true")
              => deletes[i].id \in ListedIds

\* C28: deleteDataItem is called only by a deleteItem whose confirm() was
\* answered yes; a deleteItem whose confirm() was declined changes neither
\* the backend nor the list of the manager.
C28_ConfirmStep ==
  /\ \A i \in DOMAIN deletes :
       (deletes[i].pc = "await" /\ deletes'[i].pc # "await") => deletes[i].answer
  /\ db'.rows # db.rows
       => \E i \in DOMAIN deletes :
            deletes[i].answer /\ deletes[i].pc = "await" /\ deletes'[i].pc = "done"
  /\ \A i \in DOMAIN deletes' :
       (i \notin DOMAIN deletes /\ ~deletes'[i].answer)
         => (deletes'[i].pc = "declined" /\ UNCHANGED <<db, managerItems, toast>>)
C28_ConfirmBeforeDelete == [][C28_ConfirmStep]_vars
C28_Witness ==
  \E i, j \in DOMAIN deletes :
    /\ deletes[i].pc = "declined"
    /\ deletes[j].pc = "done" /\ deletes[j].returned = "true"
    /\ deletes[j].id \notin ListedIds
    /\ deletes[i].id \in ListedIds
\* the file name a create was given: in the payload, or of the File
MadeFileName(m) == IF m.file # NoFile THEN m.file.name ELSE m.args.fileName

\* C29: get on an item that create returned and nothing has touched since
\* gives the name of the create payload as name, and the name of the
\* attached file as fileName, or no fileName when no file was attached.
C29_CreateGetKeepsName ==
  (last.op = "get" /\ last.res.kind = "item" /\ last.res.item.id \in DOMAIN made)
    => LET m == made[last.res.item.id]
       IN /\ last.res.item.name = m.args.name
          /\ IF MadeFileName(m) = Undef
               THEN last.res.item.fileName \in {Undef, Null}
               ELSE last.res.item.fileName = MadeFileName(m)

\* the add modal was submitted and its onSave reached the data layer
AddSubmitted == submitted.mode = "add" /\ last.op = "create"

\* C25: when a file was picked in the add modal and the modal submitted,
\* the create call carries that file, and the item created has the file's
\* name, MIME type and size and a file reference.
C25_AddCarriesFile ==
  (AddSubmitted /\ submitted.file # NoFile)
    => /\ IF impl = "svc" THEN last.file = submitted.file
          ELSE last.args.fileName = submitted.file.name /\ Truthy(last.args.fileData)
       /\ last.res.kind = "item"
            => /\ last.res.item.fileName = submitted.file.name
               /\ last.res.item.fileType = submitted.file.type
               /\ last.res.item.fileSize = submitted.file.size
               /\ Truthy(last.res.item.fileData)

\* C26: every create call of the add flow carries a non-empty name,
\* "Untitled" when the name typed was blank, a type of the enum, and a
\* non-empty owner id.
C26_AddCarriesValidRecord ==
  AddSubmitted
    => /\ Truthy(last.args.name)
       /\ ~Truthy(trim(submitted.typed)) => last.args.name = <<"Untitled">>
       /\ last.args.type \in DataTypes
       /\ Truthy(last.args.userId) /\ IsString(last.args.userId)
C26_Witness ==
  /\ AddSubmitted
  /\ submitted.typed = <<" ">>
  /\ last.args.name = <<"Untitled">>
  /\ last.res.kind = "item"

\* C30: every submission of the modal that carries a file carries one of at
\* most 10 MB whose MIME type is accepted for the type submitted.
C30_SubmittedFileAccepted ==
  (submitted.mode # "none" /\ submitted.file # NoFile)
    => /\ submitted.file.size <= MaxFileSize
       /\ Accepted(submitted.data.type, submitted.file)
====
